---- MODULE Spec2Model ----
(***************************************************************************)
(* Model of the cipa package's TED converter (src/src/cipa/io/tedutils.py) *)
(* and of the data model it works on.                                      *)
(*                                                                         *)
(* Conventions of the model                                                *)
(*  - A string that the code splits or joins on "_" (EXPID, CELLID, the    *)
(*    root and extension of an Id) is the sequence of its "_"-separated    *)
(*    parts: '' is <<"">>, 'E1_C1' is <<"E1", "C1">>, and '_'.join is      *)
(*    concatenation.                                                       *)
(*  - Elapsed times and sample values are integers; the code compares      *)
(*    them as floats and never converts between their units.               *)
(*  - The times of a waveform file and the time axis of an imported        *)
(*    waveform are decimals m * 10^e, and their products by 1e3 and 1e-3   *)
(*    are exact.                                                           *)
(*  - A raised exception is the value of the field err of an operator's    *)
(*    result ("none" when the call returns).                               *)
(***************************************************************************)
EXTENDS Integers, Sequences, FiniteSets, TLC

\* Bounds of the model
MaxTraces == 3
MaxTime == 2
MaxAdds == 2

\* float('nan'), the default of the numeric TED fields
NaN == -999

\* '' read from an empty cell of a numeric column (read_excel, na_filter=False)
Blank == -998

\* trial: the Trial being assembled; pc: what has been called; dfs: the tables
\* of the last projection; raised: the exception of the last call; format:
\* the format asked of to_xlsx; disk: the files of the TED dataset directory;
\* imported: the Trial that from_xlsx returned (<<>> before it has); args: the
\* arguments of a call of one of the package's functions on its own; ret: the
\* value that the call returned (<<>> before it has)
VARIABLES trial, pc, dfs, raised, format, disk, imported, args, ret

vars == <<trial, pc, dfs, raised, format, disk, imported, args, ret>>

----------------------------------------------------------------------------
(* Generic helpers: sequences as lists, pandas' sort_values and            *)
(* drop_duplicates                                                         *)

Range(s) == {s[i] : i \in DOMAIN s}

Last(s) == s[Len(s)]

RECURSIVE FlattenSeq(_)
FlattenSeq(ss) == IF ss = <<>> THEN <<>> ELSE Head(ss) \o FlattenSeq(Tail(ss))

\* Lexicographic order on sequences of integers (sort keys)
RECURSIVE KeyLess(_, _)
KeyLess(a, b) ==
    IF a = <<>> \/ b = <<>> THEN a = <<>> /\ b # <<>>
    ELSE IF Head(a) # Head(b) THEN Head(a) < Head(b)
    ELSE KeyLess(Tail(a), Tail(b))

\* Insert the keyed row r after the rows whose key is not greater
RECURSIVE InsertSorted(_, _)
InsertSorted(r, s) ==
    IF s = <<>> THEN <<r>>
    ELSE IF KeyLess(r.k, Head(s).k) THEN <<r>> \o s
    ELSE <<Head(s)>> \o InsertSorted(r, Tail(s))

\* DataFrame.sort_values(by) on rows paired with their key [k, v]: ascending,
\* rows with equal keys keep their order
RECURSIVE sort_values(_)
sort_values(s) ==
    IF s = <<>> THEN <<>>
    ELSE InsertSorted(Last(s), sort_values(SubSeq(s, 1, Len(s) - 1)))

\* DataFrame.drop_duplicates(): the first occurrence of every row is kept
RECURSIVE drop_duplicates(_)
drop_duplicates(s) ==
    IF s = <<>> THEN <<>>
    ELSE LET init == drop_duplicates(SubSeq(s, 1, Len(s) - 1))
         IN  IF Last(s) \in Range(init) THEN init ELSE Append(init, Last(s))

\* An order of the strings used as identifiers and dates (their sort rank)
StrRank(a) ==
    CASE a = "" -> 0
      [] a = "2022-06-27" -> 1
      [] a = "C1" -> 2
      [] a = "C2" -> 3
      [] a = "E1" -> 4
      [] a = "E2" -> 5
      [] OTHER -> 6

StrKey(s) == [i \in DOMAIN s |-> StrRank(s[i])]

EmptyMap == [n \in {} |-> 0]

\* The floats of a time axis are decimals: Dec(m, e) is m * 10^e, with no
\* trailing zero in m, so that equal numbers are equal records
RECURSIVE Dec(_, _)
Dec(m, e) ==
    IF m = 0 THEN [m |-> 0, e |-> 0]
    ELSE IF m % 10 = 0 THEN Dec(m \div 10, e + 1)
    ELSE [m |-> m, e |-> e]

\* float(n) of an integer n
float(n) == Dec(n, 0)

RECURSIVE Pow10(_)
Pow10(n) == IF n = 0 THEN 1 ELSE 10 * Pow10(n - 1)

\* x * 10^k, as in x * 1e3 and x * 1e-3
Scaled(x, k) == Dec(x.m, x.e + k)

\* a - b
Minus(a, b) ==
    LET e == IF a.e < b.e THEN a.e ELSE b.e
    IN  Dec(a.m * Pow10(a.e - e) - b.m * Pow10(b.e - e), e)

\* a < b
LessThan(a, b) == Minus(a, b).m < 0

----------------------------------------------------------------------------
(* Data model: enumerations                                                *)

CURRENT == "CIPA_RESULT_TYPE_CURRENT"
VOLTAGE == "CIPA_RESULT_TYPE_VOLTAGE"
TEMPERATURE == "CIPA_RESULT_TYPE_TEMPERATURE"

PROTOCOL_VOLTAGE == "CIPA_PROTOCOL_VOLTAGE"
PROTOCOL_LIQUID == "CIPA_PROTOCOL_LIQUID"

Concentration_Type ==
    {"CIPA_PROTOCOL_LIQUID_CONCENTRATION_NOMINAL",
     "CIPA_PROTOCOL_LIQUID_CONCENTRATION_CALCULATED",
     "CIPA_PROTOCOL_LIQUID_CONCENTRATION_MEASURED",
     "CIPA_PROTOCOL_LIQUID_CONCENTRATION_SATELLITE",
     "CIPA_PROTOCOL_LIQUID_CONCENTRATION_UNKNOWN"}

LeakMethod_Type ==
    {"CIPA_LEAK_METHOD_NONE", "CIPA_LEAK_METHOD_SMALL_PULSE",
     "CIPA_LEAK_METHOD_FAST_LEAK", "CIPA_LEAK_METHOD_SWEEP",
     "CIPA_LEAK_METHOD_ZERO_CURSOR", "CIPA_LEAK_METHOD_UNKNOWN"}

\* conc_type.name.split('_')[-1]
ConcTypeSuffix(name) ==
    CASE name = "CIPA_PROTOCOL_LIQUID_CONCENTRATION_NOMINAL" -> "NOMINAL"
      [] name = "CIPA_PROTOCOL_LIQUID_CONCENTRATION_CALCULATED" -> "CALCULATED"
      [] name = "CIPA_PROTOCOL_LIQUID_CONCENTRATION_MEASURED" -> "MEASURED"
      [] name = "CIPA_PROTOCOL_LIQUID_CONCENTRATION_SATELLITE" -> "SATELLITE"
      [] OTHER -> "UNKNOWN"

\* cipa.Id(root, extension)
Id(root, extension) == [root |-> root, extension |-> extension]

\* EXPID and CELLID of an Id: root, or root_extension when it has an extension
IdKey(id) == IF id.extension = <<"">> THEN id.root ELSE id.root \o id.extension

\* str(n) of a trace number
NumStr(n) ==
    CASE n = 0 -> "0" [] n = 1 -> "1" [] n = 2 -> "2" [] n = 3 -> "3"
      [] n = 4 -> "4" [] n = 5 -> "5" [] n = 6 -> "6" [] n = 7 -> "7"
      [] n = 8 -> "8" [] n = 9 -> "9" [] n = -1 -> "-1"
      [] OTHER -> "many"

\* The empty string, as a "_"-separated string
EmptyStr == <<"">>

\* A file name is a stem with its "."-separated extensions; a locator (SRCXFN,
\* edfilename) is the sequence of its ":"-separated file names
Dotted(name, exts) == [name |-> name, exts |-> exts]

EmptyPath == <<Dotted(EmptyStr, <<>>)>>

\* A ";"-joined list of numbers (ANL) is the sequence of its tokens, each the
\* sequence of its "-"-separated parts; '' has the single token ''
EmptyList == <<(<<"">>)>>

----------------------------------------------------------------------------
(* Data model: objects                                                     *)

Liquid(id, name) == [id |-> id, name |-> name]

LiquidProtocol(id, liquid, conc, conc_u, conc_type, isControl, isSelectiveBlocker) ==
    [id |-> id, type |-> PROTOCOL_LIQUID, liquid |-> liquid, conc |-> conc,
     conc_u |-> conc_u, conc_type |-> conc_type, isControl |-> isControl,
     isSelectiveBlocker |-> isSelectiveBlocker]

ProtocolExecution(protocol, time, time_u) ==
    [protocol |-> protocol, time |-> time, time_u |-> time_u]

CursorResult(value, unit) == [value |-> value, unit |-> unit]

Cursor(name, start, end, time_u, type, result) ==
    [name |-> name, start |-> start, end |-> end, time_u |-> time_u,
     type |-> type, result |-> result]

\* A Waveform holding its samples in memory (edfilename '')
Waveform(tracenum, cipaType, signalnam, unit, digits) ==
    [head |-> [value |-> 0, unit |-> "ms"],
     increment |-> [value |-> 1, unit |-> "ms"],
     origin |-> [value |-> 0, unit |-> unit],
     scale |-> [value |-> 1, unit |-> unit],
     digits |-> digits, cipaType |-> cipaType, tracenum |-> tracenum,
     signalnam |-> signalnam, edfilename |-> EmptyPath]

\* A VoltageProtocol: the intended voltage command as a waveform; it has no
\* liquid and no concentration
VoltageProtocol(id, waveform) ==
    [id |-> id, type |-> PROTOCOL_VOLTAGE, waveform |-> waveform,
     liquid |-> Liquid(Id(<<"">>, <<"">>), ""), conc |-> NaN, conc_u |-> "",
     conc_type |-> "CIPA_PROTOCOL_LIQUID_CONCENTRATION_UNKNOWN",
     isControl |-> FALSE, isSelectiveBlocker |-> FALSE]

Result(traceNumber, valid, type, elapsedTime, elapsedTime_u, waveform, cursors) ==
    [traceNumber |-> traceNumber, valid |-> valid, type |-> type,
     elapsedTime |-> elapsedTime, elapsedTime_u |-> elapsedTime_u,
     waveform |-> waveform, cursors |-> cursors]

Results(cell, leakMethod, ljp, cursors, results) ==
    [cell |-> cell, leakMethod |-> leakMethod, ljp |-> ljp,
     cursors |-> cursors, results |-> results]

Experiment(id, startTime, protocols, resultsSet) ==
    [id |-> id, startTime |-> startTime, protocols |-> protocols,
     resultsSet |-> resultsSet]

----------------------------------------------------------------------------
(* Rows of the TED tables                                                  *)

TED_LiquidAddition ==
    [EXPID |-> EmptyStr, CELLID |-> EmptyStr, STIME |-> "", LJP |-> NaN,
     LJPU |-> "", LIQUID |-> "", CONC |-> NaN, CONCU |-> "", CONCT |-> "",
     FIRST |-> 0, LAST |-> 0, CTLFL |-> "", SBFL |-> "", ANL |-> EmptyList,
     SRCXFN |-> EmptyPath, NOTES |-> ""]

TED_CursorDefinition ==
    [CURSOR |-> "", STIME |-> NaN, STIMEU |-> "", ETIME |-> NaN, ETIMEU |-> "",
     CURSORT |-> ""]

TED_CellProperty ==
    [EXPID |-> EmptyStr, CELLID |-> EmptyStr, PARAMCD |-> "", PARAM |-> "",
     VALUE |-> "", UNIT |-> ""]

\* The fixed columns of a wide row, and cur: the cursor columns that the row
\* has a value in (cursor names are not names of fixed columns).  CTLFL and
\* SBFL are columns only the liquid back-fill adds: "nan" where it did not.
TED_ResultWide ==
    [EXPID |-> EmptyStr, CELLID |-> EmptyStr, RESTYPE |-> "", LEAKMTH |-> "",
     ELTIME |-> NaN, ELTIMEU |-> "", TRACENUM |-> 0, ANLFL |-> "",
     SRCXFN |-> EmptyPath, LIQUID |-> "", CONC |-> NaN, CONCU |-> "",
     CONCT |-> "", CTLFL |-> "nan", SBFL |-> "nan", cur |-> EmptyMap]

----------------------------------------------------------------------------
(* cells_cursors_liquids_results_dataframes: the tabular projection        *)

\* A variant of FirstResults that takes the last set of results
LatestResults(exp) == exp.resultsSet[Len(exp.resultsSet)]

\* Only the first set of results of an experiment is exported
FirstResults(exp) == exp.resultsSet[1]

\* The header fields of an experiment's LiquidAdditions rows
ExpLiquidAddition(t, exp) ==
    LET rs == FirstResults(exp)
        ljp == IF rs.ljp # <<>> THEN rs.ljp[1] ELSE t.ljp
    IN  [TED_LiquidAddition EXCEPT
            !.EXPID = IdKey(exp.id), !.STIME = exp.startTime,
            !.CELLID = IdKey(rs.cell.id), !.LJP = ljp.value, !.LJPU = ljp.unit]

\* The cursor definitions of an experiment's first set of results
ExpCursorDefs(exp) ==
    LET cs == FirstResults(exp).cursors
    IN  [i \in DOMAIN cs |->
            [TED_CursorDefinition EXCEPT
                !.CURSOR = cs[i].name, !.STIME = cs[i].start,
                !.STIMEU = cs[i].time_u, !.ETIME = cs[i].end,
                !.ETIMEU = cs[i].time_u, !.CURSORT = cs[i].type]]

\* One row per executed liquid protocol, in the order of exp.protocols
exec_ps(exp) ==
    LET ps == SelectSeq(exp.protocols,
                        LAMBDA p : p.protocol.type = PROTOCOL_LIQUID)
    IN  [i \in DOMAIN ps |->
            [LIQUID |-> ps[i].protocol.liquid.name,
             CONC |-> ps[i].protocol.conc,
             CONCU |-> ps[i].protocol.conc_u,
             CONCT |-> ConcTypeSuffix(ps[i].protocol.conc_type),
             TIME |-> ps[i].time,
             TIMEU |-> ps[i].time_u,
             CTLFL |-> IF ps[i].protocol.isControl THEN "Y" ELSE "",
             SBFL |-> IF ps[i].protocol.isSelectiveBlocker THEN "Y" ELSE ""]]

\* sort_values(['TIME']).drop_duplicates() of the executed liquid protocols
exp_las(exp) ==
    LET ps == exec_ps(exp)
        sorted == sort_values([i \in DOMAIN ps |-> [k |-> <<ps[i].TIME>>, v |-> ps[i]]])
    IN  drop_duplicates([i \in DOMAIN sorted |-> sorted[i].v])

\* A variant of CursorValues that gives every cursor column the value 0
\* instead of the cursor's evaluated value
CursorStarts(cs) == [n \in {cs[i].name : i \in DOMAIN cs} |-> 0]

\* rww[rc.name] = rc.result.value for every cursor of a result: a later
\* cursor of the same name overwrites an earlier one
CursorValues(cs) ==
    [n \in {cs[i].name : i \in DOMAIN cs} |->
        LET last == CHOOSE i \in DOMAIN cs :
                        /\ cs[i].name = n
                        /\ \A j \in DOMAIN cs : cs[j].name = n => j <= i
        IN  cs[last].result.value]

\* The wide row of one result
ResultWideRow(la, rs, res) ==
    [TED_ResultWide EXCEPT
        !.EXPID = la.EXPID, !.CELLID = la.CELLID, !.RESTYPE = res.type,
        !.LEAKMTH = rs.leakMethod, !.ELTIME = res.elapsedTime,
        !.ELTIMEU = res.elapsedTime_u, !.TRACENUM = res.traceNumber,
        !.SRCXFN = res.waveform.edfilename,
        !.ANLFL = IF res.valid THEN "Y" ELSE "",
        !.cur = CursorValues(res.cursors)]

\* A variant of exp_res_wide that gives a row to the results of every type
exp_res_wide_all(la, exp) ==
    LET rs == FirstResults(exp)
    IN  [i \in DOMAIN rs.results |-> ResultWideRow(la, rs, rs.results[i])]

\* One wide row per CURRENT result of the first set of results
exp_res_wide(la, exp) ==
    LET rs == FirstResults(exp)
        cur == SelectSeq(rs.results, LAMBDA res : res.type = CURRENT)
    IN  [i \in DOMAIN cur |-> ResultWideRow(la, rs, cur[i])]

\* A fixed-width sort key of a "_"-separated string
PadKey(s) == [i \in 1..6 |-> IF i <= Len(s) THEN StrRank(s[i]) ELSE -1]

WideKey(r) == PadKey(r.EXPID) \o PadKey(r.CELLID) \o <<r.ELTIME, r.TRACENUM>>

\* sort_values(["EXPID", "CELLID", "ELTIME", "TRACENUM"]) of wide rows
SortWide(rows) ==
    LET sorted == sort_values([i \in DOMAIN rows |-> [k |-> WideKey(rows[i]), v |-> rows[i]]])
    IN  [i \in DOMAIN sorted |-> sorted[i].v]

\* tmp[tmp["ELTIME"] >= TIME] and tmp[tmp["ELTIME"] < TIME]
TracesFrom(tmp, time) == SelectSeq(tmp, LAMBDA r : r.ELTIME >= time)

TracesBefore(tmp, time) == SelectSeq(tmp, LAMBDA r : r.ELTIME < time)

\* A variant of FirstOf that takes the last of the rows that are not earlier
\* than the addition
FirstOfLatest(tmp, time) == Last(TracesFrom(tmp, time)).TRACENUM

\* FIRST of the liquid addition at `time`: the first row, in the order of tmp,
\* that is not earlier than the addition.  iloc[0] of no row raises IndexError.
FirstOf(tmp, time) == TracesFrom(tmp, time)[1].TRACENUM

\* A variant of LastBefore that also counts the rows at `time`
LastBeforeOrAt(tmp, time) ==
    Last(SelectSeq(tmp, LAMBDA r : r.ELTIME <= time)).TRACENUM

\* LAST of the liquid addition that precedes the one at `time`: the last row
\* of tmp that is earlier than `time`
LastBefore(tmp, time) == Last(TracesBefore(tmp, time)).TRACENUM

\* LAST of the last liquid addition: the last row of tmp
LastOfAll(tmp) == Last(tmp).TRACENUM

\* The loop over exp_las raises IndexError when an addition has no trace at or
\* after it, or an addition that is not the first has no trace before it
LiquidLoopFails(las, tmp) ==
    \/ \E i \in DOMAIN las : TracesFrom(tmp, las[i].TIME) = <<>>
    \/ \E i \in DOMAIN las : i > 1 /\ TracesBefore(tmp, las[i].TIME) = <<>>

\* exp_liq_adds with FIRST and LAST, before ANL and SRCXFN are filled in
LiquidRanges(la, las, tmp) ==
    [i \in DOMAIN las |->
        [la EXCEPT
            !.LIQUID = las[i].LIQUID, !.CONC = las[i].CONC,
            !.CONCU = las[i].CONCU, !.CONCT = las[i].CONCT,
            !.CTLFL = las[i].CTLFL, !.SBFL = las[i].SBFL,
            !.FIRST = FirstOf(tmp, las[i].TIME),
            !.LAST = IF i < Len(las) THEN LastBefore(tmp, las[i + 1].TIME)
                     ELSE LastOfAll(tmp)]]

InRange(r, xla) == r.TRACENUM >= xla.FIRST /\ r.TRACENUM <= xla.LAST

\* ";".join of the distinct values, in their order
JoinNumbers(ns) ==
    IF ns = <<>> THEN EmptyList ELSE [i \in DOMAIN ns |-> <<NumStr(ns[i])>>]

JoinPaths(ps) ==
    IF ps = <<>> THEN EmptyPath
    ELSE FlattenSeq([i \in DOMAIN ps |->
            IF i = 1 THEN ps[i] ELSE <<Dotted(<<";">>, <<>>)>> \o ps[i]])

\* A variant of ValidTraces that lists the rows that are not valid too
TracesInRange(xla, tmp) ==
    LET rows == SelectSeq(tmp, LAMBDA r : InRange(r, xla))
    IN  JoinNumbers(drop_duplicates([i \in DOMAIN rows |-> rows[i].TRACENUM]))

\* ANL: the trace numbers of the valid rows of tmp within [FIRST, LAST]
ValidTraces(xla, tmp) ==
    LET rows == SelectSeq(tmp, LAMBDA r : r.ANLFL = "Y" /\ InRange(r, xla))
    IN  JoinNumbers(drop_duplicates([i \in DOMAIN rows |-> rows[i].TRACENUM]))

\* SRCXFN: the source files of the rows of tmp within [FIRST, LAST]
SignalFiles(xla, tmp) ==
    LET rows == SelectSeq(tmp, LAMBDA r : InRange(r, xla))
    IN  JoinPaths(drop_duplicates([i \in DOMAIN rows |-> rows[i].SRCXFN]))

exp_liq_adds(la, las, tmp) ==
    LET ranges == LiquidRanges(la, las, tmp)
    IN  [i \in DOMAIN ranges |->
            [ranges[i] EXCEPT !.ANL = ValidTraces(ranges[i], tmp),
                              !.SRCXFN = SignalFiles(ranges[i], tmp)]]

\* Liquid information added to a wide row: that of the last addition, in the
\* order of exp_liq_adds, whose range holds the row's trace number
BackFill(er, xlas) ==
    LET hits == {i \in DOMAIN xlas : InRange(er, xlas[i])}
    IN  IF hits = {} THEN er
        ELSE LET x == xlas[CHOOSE i \in hits : \A j \in hits : j <= i]
             IN  [er EXCEPT !.LIQUID = x.LIQUID, !.CONC = x.CONC,
                            !.CONCU = x.CONCU, !.CONCT = x.CONCT,
                            !.CTLFL = x.CTLFL, !.SBFL = x.SBFL]

\* The body of the loop over trial.experiments, for one experiment
ProjectExperiment(t, exp) ==
    LET la == ExpLiquidAddition(t, exp)
        rows == exp_res_wide(la, exp)
        tmp == SortWide(rows)
        las == exp_las(exp)
        rs == FirstResults(exp)
        none == [err |-> "none", cursors_defs |-> <<>>, cell_props |-> <<>>,
                 liquid_adds |-> <<>>, res_wide |-> <<>>]
    IN  IF exec_ps(exp) = <<>> \/ rows = <<>> THEN [none EXCEPT !.err = "KeyError"]
        ELSE IF LiquidLoopFails(las, tmp) THEN [none EXCEPT !.err = "IndexError"]
        ELSE LET xlas == exp_liq_adds(la, las, tmp)
             IN  [err |-> "none",
                  cursors_defs |-> ExpCursorDefs(exp),
                  cell_props |->
                      [i \in DOMAIN rs.cell.properties |->
                          [TED_CellProperty EXCEPT
                              !.EXPID = la.EXPID, !.CELLID = la.CELLID,
                              !.PARAMCD = rs.cell.properties[i].code,
                              !.PARAM = rs.cell.properties[i].displayName,
                              !.VALUE = rs.cell.properties[i].value,
                              !.UNIT = rs.cell.properties[i].unit]],
                  liquid_adds |-> xlas,
                  res_wide |-> [i \in DOMAIN rows |-> BackFill(rows[i], xlas)]]

LAKey(r) ==
    <<StrRank(r.STIME)>> \o PadKey(r.EXPID) \o PadKey(r.CELLID) \o <<r.FIRST, r.LAST>>

\* The columns of a table built from row dictionaries are the keys of all of
\* them: a row has NaN in the cursor columns it has no value for
FillColumns(rows) ==
    LET names == UNION {DOMAIN rows[i].cur : i \in DOMAIN rows}
    IN  [i \in DOMAIN rows |->
            [rows[i] EXCEPT !.cur = [n \in names |->
                IF n \in DOMAIN rows[i].cur THEN rows[i].cur[n] ELSE NaN]]]

\* DataFrame.drop(columns=...) on a row: the row without those columns
drop(row, columns) == [c \in DOMAIN row \ columns |-> row[c]]

\* rw_df: the column SRCXFN dropped, duplicate rows dropped, rows sorted
WideTable(res_wide) ==
    SortWide(drop_duplicates(
        [i \in DOMAIN res_wide |-> drop(FillColumns(res_wide)[i], {"SRCXFN"})]))

NoTables ==
    [err |-> "none", CellProperties |-> <<>>, CursorsDefinitions |-> <<>>,
     LiquidAdditions |-> <<>>, ResultsWide |-> <<>>]

\* The tables of the trial from the outcomes of the loop's iterations: the
\* first failure is the one raised; pd.DataFrame([]) has no column to sort by
ConcatTables(per) ==
    LET failed == {i \in DOMAIN per : per[i].err # "none"}
        liquid_adds == FlattenSeq([i \in DOMAIN per |-> per[i].liquid_adds])
        res_wide == FlattenSeq([i \in DOMAIN per |-> per[i].res_wide])
        la_sorted == sort_values([i \in DOMAIN liquid_adds |->
                        [k |-> LAKey(liquid_adds[i]), v |-> liquid_adds[i]]])
    IN  IF failed # {}
        THEN [NoTables EXCEPT !.err = per[CHOOSE i \in failed : \A j \in failed : i <= j].err]
        ELSE IF liquid_adds = <<>> \/ res_wide = <<>>
        THEN [NoTables EXCEPT !.err = "KeyError"]
        ELSE [err |-> "none",
              CellProperties |-> FlattenSeq([i \in DOMAIN per |-> per[i].cell_props]),
              CursorsDefinitions |->
                  drop_duplicates(FlattenSeq([i \in DOMAIN per |-> per[i].cursors_defs])),
              LiquidAdditions |-> [i \in DOMAIN la_sorted |-> la_sorted[i].v],
              ResultsWide |-> WideTable(res_wide)]

cells_cursors_liquids_results_dataframes(t) ==
    ConcatTables([i \in DOMAIN t.experiments |-> ProjectExperiment(t, t.experiments[i])])

\* An exception: its class, and its field filename where it has one
Exception(name, filename) == [name |-> name, filename |-> filename]

NoException == Exception("none", "")

\* A dataset directory with no file in it
EmptyDisk == [book |-> <<>>, files |-> [f \in {} |-> 0]]

----------------------------------------------------------------------------
(* Waveform tables (waveforms.py) and to_xlsx                              *)

\* "#" + str(tracenum), the second part of a signal's column name
TraceTag(n) ==
    CASE n = 1 -> "#1" [] n = 2 -> "#2" [] n = 3 -> "#3" [] n = 4 -> "#4"
      [] n = 5 -> "#5" [] n = 6 -> "#6" [] n = 7 -> "#7" [] n = 8 -> "#8"
      [] n = 9 -> "#9" [] n = -1 -> "#-1"
      [] OTHER -> "#many"

\* str.lower() and str.upper() on the strings of the model
Lower(a) ==
    CASE a = "CURRENT" -> "current" [] a = "VOLTAGE" -> "voltage"
      [] a = "TEMPERATURE" -> "temperature" [] a = "Trace" -> "trace"
      [] a = "MS" -> "ms" [] a = "S" -> "s" [] a = "US" -> "us"
      [] a = "CSV" -> "csv" [] a = "ZIP" -> "zip" [] a = "XLSX" -> "xlsx"
      [] OTHER -> a

Upper(a) ==
    CASE a = "current" -> "CURRENT" [] a = "voltage" -> "VOLTAGE"
      [] a = "temperature" -> "TEMPERATURE" [] a = "y" -> "Y"
      [] a = "nominal" -> "NOMINAL" [] a = "measured" -> "MEASURED"
      [] a = "maximum" -> "MAXIMUM" [] a = "minimum" -> "MINIMUM"
      [] a = "average" -> "AVERAGE" [] a = "custom" -> "CUSTOM"
      [] OTHER -> a

\* cipaType.split("_")[-1]
TypeSuffix(cipaType) ==
    CASE cipaType = CURRENT -> "CURRENT"
      [] cipaType = VOLTAGE -> "VOLTAGE"
      [] cipaType = TEMPERATURE -> "TEMPERATURE"
      [] cipaType = PROTOCOL_VOLTAGE -> "VOLTAGE"
      [] cipaType = PROTOCOL_LIQUID -> "LIQUID"
      [] OTHER -> "UNKNOWN"

\* A column of a table of samples: its name, as the sequence of its
\* "_"-separated parts, and its values
Column(name, values) == [name |-> name, values |-> values]

\* A variant of timeseries_to_df that leaves the origin out of the samples
timeseries_to_df_no_origin(wf, includetime) ==
    LET signam == IF wf.signalnam = "" THEN Lower(TypeSuffix(wf.cipaType))
                  ELSE wf.signalnam
        signal == Column(<<"trace", TraceTag(wf.tracenum), signam, wf.scale.unit>>,
                         [i \in DOMAIN wf.digits |->
                             wf.digits[i] * wf.scale.value])
        time == Column(<<"t", wf.increment.unit>>,
                       [i \in DOMAIN wf.digits |->
                           float((i - 1) * wf.increment.value)])
    IN  IF includetime THEN <<time, signal>> ELSE <<signal>>

\* Waveform.timeseries_to_df: the column of the samples in physical units,
\* after the column of the sample times when includetime
timeseries_to_df(wf, includetime) ==
    LET signam == IF wf.signalnam = "" THEN Lower(TypeSuffix(wf.cipaType))
                  ELSE wf.signalnam
        signal == Column(<<"trace", TraceTag(wf.tracenum), signam, wf.scale.unit>>,
                         [i \in DOMAIN wf.digits |->
                             wf.digits[i] * wf.scale.value + wf.origin.value])
        time == Column(<<"t", wf.increment.unit>>,
                       [i \in DOMAIN wf.digits |->
                           float((i - 1) * wf.increment.value)])
    IN  IF includetime THEN <<time, signal>> ELSE <<signal>>

\* pd.concat(axis=1): columns side by side, the shorter ones filled with NaN
concat(cols) ==
    LET n == IF cols = <<>> THEN 0
             ELSE CHOOSE m \in {Len(cols[i].values) : i \in DOMAIN cols} :
                      \A i \in DOMAIN cols : Len(cols[i].values) <= m
    IN  [i \in DOMAIN cols |->
            Column(cols[i].name,
                   [k \in 1..n |-> IF k <= Len(cols[i].values)
                                   THEN cols[i].values[k] ELSE NaN])]

\* waveforms_to_df: the time axis of the first waveform, then the samples of
\* every waveform (wf_list is not empty)
waveforms_to_df(wf_list) ==
    concat(timeseries_to_df(wf_list[1], TRUE)
           \o FlattenSeq([i \in 1..(Len(wf_list) - 1) |->
                            timeseries_to_df(wf_list[i + 1], FALSE)]))

\* voltage_command_dataframe: the time series of the first voltage protocol
\* of the trial, or a table without columns
voltage_command_dataframe(t) ==
    LET vs == SelectSeq(t.protocols, LAMBDA p : p.type = PROTOCOL_VOLTAGE)
    IN  IF vs = <<>> THEN <<>> ELSE timeseries_to_df(vs[1].waveform, TRUE)

\* root + extension of the device Id (the device Ids have no extension)
DeviceId(id) == IF id.extension = EmptyStr THEN id.root ELSE id.root \o id.extension

\* The rows of the sheet GeneralInformation that import reads back
TED_GeneralInformation(t) ==
    [DEVICE_ID |-> DeviceId(t.devices[1].id), DEVICE_CODE |-> t.devices[1].code]

\* The edformat values that to_xlsx has a branch for
EdFormats == {"csv", "zip", "xlsx"}

\* The name of the waveform file of a cell, and the SRCXFN that names it
edfilename(edformat, sheetname) ==
    CASE edformat = "csv" -> Dotted(sheetname, <<"csv">>)
      [] edformat = "zip" -> Dotted(sheetname, <<"csv", "zip">>)
      [] OTHER -> Dotted(<<"waveforms">>, <<"xlsx">>)

\* A variant of DropExt that keeps the extension .zip
KeepExt(fn) == fn

\* csvfn[:-4]: the file name without its last extension
DropExt(fn) == Dotted(fn.name, SubSeq(fn.exts, 1, Len(fn.exts) - 1))

\* A variant of SRCXFN that leaves the cell as the projection filled it in
SRCXFNOfWaveform(edformat, sheetname) == EmptyPath

\* The locator that SRCXFN is given for the waveforms of the cell sheetname
SRCXFN(edformat, sheetname) ==
    CASE edformat = "csv" -> <<edfilename(edformat, sheetname)>>
      [] edformat = "zip" ->
            <<edfilename(edformat, sheetname), DropExt(edfilename(edformat, sheetname))>>
      [] OTHER -> <<edfilename(edformat, sheetname), Dotted(sheetname, <<>>)>>

\* A file of waveforms: its kind, the tables it holds by name (the csv file
\* itself, the member of the archive, the sheets of the workbook) and the name
\* of the first one.  The member of an archive is named after the archive
\* without its .zip extension (pandas infers the inner file name).
WaveformFile(kind, names, tables) ==
    [kind |-> kind, first |-> names[1],
     parts |-> [n \in Range(names) |->
        tables[CHOOSE i \in DOMAIN names :
                  names[i] = n /\ \A j \in DOMAIN names : names[j] = n => j <= i]]]

\* The waveform files that the loop over trial.experiments leaves on disk: a
\* later experiment of the same cell overwrites the file of an earlier one
save_waveforms(t, edformat, files) ==
    LET exps == t.experiments
        sheet == [i \in DOMAIN exps |-> IdKey(FirstResults(exps[i]).cell.id)]
        table == [i \in DOMAIN exps |->
                    waveforms_to_df([k \in DOMAIN FirstResults(exps[i]).results |->
                                        FirstResults(exps[i]).results[k].waveform])]
        fns == {edfilename(edformat, sheet[i]) : i \in DOMAIN exps}
        lastOf(fn) == CHOOSE i \in DOMAIN exps :
                         /\ edfilename(edformat, sheet[i]) = fn
                         /\ \A j \in DOMAIN exps :
                               edfilename(edformat, sheet[j]) = fn => j <= i
    IN  [fn \in fns \cup DOMAIN files |->
            IF fn \notin fns THEN files[fn]
            ELSE IF edformat = "csv"
                 THEN WaveformFile("csv", <<fn>>, <<table[lastOf(fn)]>>)
            ELSE IF edformat = "zip"
                 THEN WaveformFile("zip", <<DropExt(fn)>>, <<table[lastOf(fn)]>>)
            ELSE WaveformFile("xlsx", [i \in DOMAIN exps |-> Dotted(sheet[i], <<>>)],
                              table)]

\* la_df.loc[(EXPID == expid) & (CELLID == sheetname), "SRCXFN"] of the loop
\* over trial.experiments: every row names the waveform file of its cell
BackFilled(la_df, edformat) ==
    [i \in DOMAIN la_df |->
        [la_df[i] EXCEPT !.SRCXFN = SRCXFN(edformat, la_df[i].CELLID)]]

\* The summary workbook: the six sheets written at the end of to_xlsx
SummaryBook(tables, la_df, t) ==
    [GeneralInformation |-> TED_GeneralInformation(t),
     CellProperties |-> tables.CellProperties,
     LiquidAdditions |-> la_df,
     CursorsDefinitions |-> tables.CursorsDefinitions,
     IntendedVoltageProtocol |-> voltage_command_dataframe(t),
     ResultsWide |-> tables.ResultsWide]

\* The part of to_xlsx that follows the projection into `tables`
write_xlsx(tables, t, edformat, d) ==
    IF tables.err # "none"
    THEN [raised |-> Exception(tables.err, ""), disk |-> d]
    ELSE IF edformat \notin EdFormats
    THEN [raised |-> Exception("EncapsulatedDataFileError", edformat), disk |-> d]
    ELSE [raised |-> NoException,
          disk |-> [book |-> <<SummaryBook(tables,
                                  BackFilled(tables.LiquidAdditions, edformat), t)>>,
                    files |-> save_waveforms(t, edformat, d.files)]]

\* to_xlsx(trial, ted_xlsx_filename, edformat) in the directory d: the tables
\* are built first, then the waveform files are written and named in SRCXFN,
\* and the workbook is written last
to_xlsx(t, edformat, d) ==
    write_xlsx(cells_cursors_liquids_results_dataframes(t), t, edformat, d)

----------------------------------------------------------------------------
(* from_xlsx                                                               *)

\* read_excel(na_filter=False) of a cell of a numeric column: NaN was written
\* as an empty cell, which reads as ''
ReadCell(x) == IF x = NaN THEN Blank ELSE x

\* The keys of the dictionaries conctypes and cursortypes
conctypes == {"NOMINAL", "MEASURED"}

cursortypes == {"AVERAGE", "MAXIMUM", "MINIMUM", "CUSTOM"}

\* conctypes[key]
ConcentrationOf(key) ==
    IF key = "NOMINAL" THEN "CIPA_PROTOCOL_LIQUID_CONCENTRATION_NOMINAL"
    ELSE "CIPA_PROTOCOL_LIQUID_CONCENTRATION_MEASURED"

\* f"L-{idx}" and f"P-{idx}"
LiquidTag(idx) ==
    CASE idx = 0 -> "L-0" [] idx = 1 -> "L-1" [] idx = 2 -> "L-2" [] OTHER -> "L-n"

ProtocolTag(idx) ==
    CASE idx = 0 -> "P-0" [] idx = 1 -> "P-1" [] idx = 2 -> "P-2" [] OTHER -> "P-n"

\* int(s) of the strings that are numbers
IsNumber(a) == a \in {"0", "1", "2", "3", "4", "5", "6", "7", "8", "9"}

int(a) ==
    CASE a = "0" -> 0 [] a = "1" -> 1 [] a = "2" -> 2 [] a = "3" -> 3
      [] a = "4" -> 4 [] a = "5" -> 5 [] a = "6" -> 6 [] a = "7" -> 7
      [] a = "8" -> 8 [] OTHER -> 9

\* expand_numbers_list(numbers_string): the numbers of the well-formed tokens,
\* as strings, or ValueError when the bounds of a range are not numbers
expand_numbers_list(numbers_string) ==
    IF numbers_string = EmptyList THEN [err |-> "none", out |-> <<>>]
    ELSE IF \E i \in DOMAIN numbers_string :
                /\ Len(numbers_string[i]) = 2
                /\ ~(IsNumber(numbers_string[i][1]) /\ IsNumber(numbers_string[i][2]))
    THEN [err |-> "ValueError", out |-> <<>>]
    ELSE [err |-> "none",
          out |-> FlattenSeq([i \in DOMAIN numbers_string |->
                LET item == numbers_string[i]
                IN  IF Len(item) = 2 /\ int(item[1]) <= int(item[2])
                    THEN [k \in 1..(int(item[2]) - int(item[1]) + 1) |->
                             NumStr(int(item[1]) + k - 1)]
                    ELSE IF Len(item) = 1 THEN <<item[1]>>
                    ELSE <<>>])]

\* The sheet LiquidAdditions as read: empty numeric cells read as '', the
\* flags in upper case
ReadLiquidAdditions(book) ==
    [i \in DOMAIN book.LiquidAdditions |->
        [book.LiquidAdditions[i] EXCEPT
            !.LJP = ReadCell(@), !.CONC = ReadCell(@),
            !.CTLFL = IF @ = "nan" THEN "" ELSE Upper(@),
            !.SBFL = IF @ = "nan" THEN "" ELSE Upper(@)]]

\* The sheet ResultsWide as read
ReadResultsWide(book) ==
    [i \in DOMAIN book.ResultsWide |->
        [book.ResultsWide[i] EXCEPT
            !.CONC = ReadCell(@),
            !.cur = [n \in DOMAIN @ |-> ReadCell(@[n])]]]

\* liquids_df: the distinct liquid names, and the Liquid of a name
liquids_df(la) == drop_duplicates([i \in DOMAIN la |-> la[i].LIQUID])

cipa_liquid(la, name) ==
    LET names == liquids_df(la)
        idx == CHOOSE i \in DOMAIN names : names[i] = name
    IN  Liquid(Id(<<LiquidTag(idx - 1)>>, <<"">>), name)

\* The columns a liquid protocol is identified by
LiquidKey(r) ==
    [LIQUID |-> r.LIQUID, CONC |-> r.CONC, CONCU |-> r.CONCU, CONCT |-> r.CONCT,
     CTLFL |-> r.CTLFL, SBFL |-> r.SBFL]

\* liquid_ps: the distinct liquid protocols, and the LiquidProtocol of one
liquid_ps(la) == drop_duplicates([i \in DOMAIN la |-> LiquidKey(la[i])])

cipa_lp(la, key) ==
    LET ps == liquid_ps(la)
        idx == CHOOSE i \in DOMAIN ps : ps[i] = key
        liquid == cipa_liquid(la, key.LIQUID)
    IN  LiquidProtocol(Id(<<ProtocolTag(idx - 1)>> \o liquid.id.root, <<"">>),
                       liquid, key.CONC, key.CONCU,
                       ConcentrationOf(Upper(key.CONCT)),
                       Upper(key.CTLFL) = "Y", Upper(key.SBFL) = "Y")

\* The VoltageProtocol built from the sheet IntendedVoltageProtocol
voltage_command_protocol(vc) ==
    VoltageProtocol(Id(<<"PV-10001">>, <<"">>),
        [head |-> [value |-> 0, unit |-> Last(vc[1].name)],
         increment |-> [value |-> Minus(vc[1].values[2], vc[1].values[1]),
                        unit |-> Last(vc[1].name)],
         origin |-> [value |-> 0, unit |-> Last(vc[2].name)],
         scale |-> [value |-> 1, unit |-> Last(vc[2].name)],
         digits |-> vc[2].values, cipaType |-> PROTOCOL_VOLTAGE, tracenum |-> -1,
         signalnam |-> "voltage", edfilename |-> EmptyPath])

\* A variant of rsCursors that names a template by the type of its cursor
rsCursorsByType(cd) ==
    [i \in DOMAIN cd |->
        [name |-> Upper(cd[i].CURSORT), start |-> cd[i].STIME, end |-> cd[i].ETIME,
         time_u |-> cd[i].STIMEU, type |-> Upper(cd[i].CURSORT), result |-> <<>>]]

\* The Cursor templates built from the sheet CursorsDefinitions
rsCursors(cd) ==
    [i \in DOMAIN cd |->
        [name |-> cd[i].CURSOR, start |-> cd[i].STIME, end |-> cd[i].ETIME,
         time_u |-> cd[i].STIMEU, type |-> Upper(cd[i].CURSORT), result |-> <<>>]]

\* A variant of expres that merges a row with the liquid protocols of the
\* LiquidAdditions rows whose range [FIRST, LAST] holds its trace number
expres_in_range(rw, la, experiment) ==
    LET rows == SelectSeq(rw, LAMBDA r :
                    r.EXPID = experiment.EXPID /\ r.CELLID = experiment.CELLID)
    IN  FlattenSeq([i \in DOMAIN rows |->
            LET hits == SelectSeq(la, LAMBDA l :
                            /\ l.EXPID = rows[i].EXPID
                            /\ l.CELLID = rows[i].CELLID
                            /\ l.FIRST <= rows[i].TRACENUM
                            /\ rows[i].TRACENUM <= l.LAST)
            IN  IF hits = <<>> THEN <<[row |-> rows[i], cipa_lp |-> <<>>]>>
                ELSE [k \in DOMAIN hits |->
                        [row |-> rows[i],
                         cipa_lp |-> <<cipa_lp(la, LiquidKey(hits[k]))>>]]])

\* expres: the ResultsWide rows of an experiment, each merged (how="left")
\* with the liquid protocols of the LiquidAdditions rows that start at its
\* trace number; cipa_lp is <<>> for a row that starts no addition
expres(rw, la, experiment) ==
    LET rows == SelectSeq(rw, LAMBDA r :
                    r.EXPID = experiment.EXPID /\ r.CELLID = experiment.CELLID)
    IN  FlattenSeq([i \in DOMAIN rows |->
            LET hits == SelectSeq(la, LAMBDA l :
                            /\ l.EXPID = rows[i].EXPID
                            /\ l.CELLID = rows[i].CELLID
                            /\ l.FIRST = rows[i].TRACENUM)
            IN  IF hits = <<>> THEN <<[row |-> rows[i], cipa_lp |-> <<>>]>>
                ELSE [k \in DOMAIN hits |->
                        [row |-> rows[i],
                         cipa_lp |-> <<cipa_lp(la, LiquidKey(hits[k]))>>]]])

\* The extension that a file name or a locator ends with, in lower case
LastExt(loc) ==
    IF Last(loc).exts = <<>> THEN "" ELSE Lower(Last(Last(loc).exts))

\* The waveform table that from_xlsx loads for the locator loc; `old` is the
\* table loaded before (<<>> for None).  A locator that is neither a csv file,
\* nor a csv member of a zip archive, nor an xlsx file loads nothing and
\* leaves the table of the file read before.
LoadWaveforms(loc, files, old) ==
    IF LastExt(loc) = "csv"
    THEN IF Len(loc) = 1
         THEN IF loc[1] \notin DOMAIN files
              THEN [err |-> "FileNotFoundError", data |-> old]
              ELSE IF files[loc[1]].kind # "csv"
              THEN [err |-> "ParserError", data |-> old]
              ELSE [err |-> "none", data |-> <<files[loc[1]].parts[loc[1]]>>]
         ELSE IF LastExt(<<loc[1]>>) = "zip"
         THEN IF loc[1] \notin DOMAIN files
              THEN [err |-> "FileNotFoundError", data |-> old]
              ELSE IF files[loc[1]].kind # "zip"
              THEN [err |-> "BadZipFile", data |-> old]
              ELSE IF loc[2] \notin DOMAIN files[loc[1]].parts
              THEN [err |-> "KeyError", data |-> old]
              ELSE [err |-> "none", data |-> <<files[loc[1]].parts[loc[2]]>>]
         ELSE [err |-> "none", data |-> old]
    ELSE IF LastExt(loc) = "xlsx"
    THEN IF Len(loc) # 1 \/ loc[1] \notin DOMAIN files
         THEN [err |-> "FileNotFoundError", data |-> old]
         ELSE IF files[loc[1]].kind # "xlsx"
         THEN [err |-> "BadZipFile", data |-> old]
         ELSE [err |-> "none", data |-> <<files[loc[1]].parts[files[loc[1]].first]>>]
    ELSE [err |-> "none", data |-> old]

\* waveformdata_from_file before the first row of an experiment
NoWaveformData == [filename |-> EmptyPath, data |-> <<>>, t_increase_ms |-> 0]

\* A variant of NormalizeTime that takes the times of every file for
\* milliseconds
NormalizeTimeAsMs(time_units, time_head, time_step) ==
    [head |-> time_head, step |-> time_step]

\* The time axis of a loaded table in milliseconds: the first time and the step
\* between the first two, converted by the unit that the name of the time
\* column ends with
NormalizeTime(time_units, time_head, time_step) ==
    IF time_units = "s"
    THEN [head |-> Scaled(time_head, 3), step |-> Scaled(time_step, 3)]
    ELSE IF time_units = "ms" THEN [head |-> time_head, step |-> time_step]
    ELSE IF time_units = "us"
    THEN [head |-> Scaled(time_head, -3), step |-> Scaled(time_step, -3)]
    ELSE IF LessThan(time_step, Dec(1, -3))
    THEN [head |-> Scaled(time_head, -3), step |-> Scaled(time_step, 3)]
    ELSE [head |-> time_head, step |-> time_step]

\* Whether the name of a column contains f"Trace_#{TRACENUM}_", whatever the case
MatchesTrace(name, tracenum) ==
    \E i \in DOMAIN name :
        /\ i + 2 <= Len(name)
        /\ Lower(name[i]) = "trace"
        /\ Lower(name[i + 1]) = Lower(TraceTag(tracenum))

\* The result type that a column is of, from the part before its unit
ColumnType(coltype) ==
    IF Upper(coltype) = "CURRENT" THEN CURRENT
    ELSE IF Upper(coltype) = "VOLTAGE" THEN VOLTAGE
    ELSE IF Upper(coltype) = "TEMPERATURE" THEN TEMPERATURE
    ELSE "CIPA_RESULT_TYPE_UNKNOWN"

\* The Results built for a row of expres from the loaded table: one for every
\* column of the row's trace number whose type is the row's RESTYPE
RowResults(row, validfl, cwf, data, time_head, t_increase_ms) ==
    LET matched == SelectSeq(data, LAMBDA c :
                        /\ MatchesTrace(c.name, row.TRACENUM)
                        /\ ColumnType(c.name[Len(c.name) - 1]) = row.RESTYPE)
    IN  [i \in DOMAIN matched |->
            Result(row.TRACENUM, validfl, row.RESTYPE, row.ELTIME, row.ELTIMEU,
                   [head |-> [value |-> time_head, unit |-> "ms"],
                    increment |-> [value |-> t_increase_ms, unit |-> "ms"],
                    origin |-> [value |-> 0, unit |-> Last(matched[i].name)],
                    scale |-> [value |-> 1, unit |-> Last(matched[i].name)],
                    digits |-> matched[i].values, cipaType |-> row.RESTYPE,
                    tracenum |-> row.TRACENUM,
                    signalnam |-> matched[i].name[Len(matched[i].name) - 1],
                    edfilename |-> EmptyPath],
                   cwf)]

\* A variant of TimeAxis that leaves the axis its unit
TimeAxisInItsUnit(axis) ==
    [unit |-> axis.unit,
     head |-> NormalizeTime(Lower(axis.unit), axis.head, axis.step).head,
     step |-> NormalizeTime(Lower(axis.unit), axis.head, axis.step).step]

\* The time axis that the waveforms of a file are given: the unit ms, and the
\* first time and the step of the file normalised from the file's unit
TimeAxis(axis) ==
    [unit |-> "ms",
     head |-> NormalizeTime(Lower(axis.unit), axis.head, axis.step).head,
     step |-> NormalizeTime(Lower(axis.unit), axis.head, axis.step).step]

\* A variant of RowExecutions that executes the voltage protocol at the rows
\* that start a liquid addition only
RowExecutionsOfAdditions(res, vcp) ==
    IF res.cipa_lp # <<>>
    THEN <<ProtocolExecution(res.cipa_lp[1], res.row.ELTIME, res.row.ELTIMEU),
           ProtocolExecution(vcp, res.row.ELTIME, res.row.ELTIMEU)>>
    ELSE <<>>

\* The executions appended for a row of expres: that of the liquid protocol
\* merged into the row, if any, then that of the voltage protocol
RowExecutions(res, vcp) ==
    (IF res.cipa_lp # <<>>
     THEN <<ProtocolExecution(res.cipa_lp[1], res.row.ELTIME, res.row.ELTIMEU)>>
     ELSE <<>>)
    \o <<ProtocolExecution(vcp, res.row.ELTIME, res.row.ELTIMEU)>>

\* One iteration of the loop over expres.  acc holds the protocol executions
\* and the results of the experiment so far, waveformdata_from_file (wfile)
\* and the exception raised, if any.
ImportRow(res, la, cd, vcp, files, acc) ==
    LET row == res.row
        pes == RowExecutions(res, vcp)
        la_row == SelectSeq(la, LAMBDA l :
                      /\ l.EXPID = row.EXPID /\ l.CELLID = row.CELLID
                      /\ l.FIRST <= row.TRACENUM /\ l.LAST >= row.TRACENUM)
        executed == [acc EXCEPT !.protocols = @ \o pes]
    IN  IF Len(la_row) # 1 THEN executed
        ELSE
        LET anl == expand_numbers_list(la_row[1].ANL)
            cwf == LET cns == SelectSeq(cd, LAMBDA c : c.CURSOR \in DOMAIN row.cur)
                   IN  [i \in DOMAIN cns |->
                          Cursor(cns[i].CURSOR, NaN, NaN, "", "None",
                                 CursorResult(row.cur[cns[i].CURSOR], "pA"))]
            reload == \/ acc.wfile.filename = EmptyPath
                      \/ acc.wfile.filename # la_row[1].SRCXFN
            loaded == LoadWaveforms(la_row[1].SRCXFN, files, acc.wfile.data)
        IN  IF anl.err # "none" \/ \E i \in DOMAIN anl.out : ~IsNumber(anl.out[i])
            THEN [executed EXCEPT !.err = "ValueError"]
            ELSE
            LET validfl == \E i \in DOMAIN anl.out : int(anl.out[i]) = row.TRACENUM
            IN  IF ~reload
                THEN [executed EXCEPT !.results = @ \o
                        RowResults(row, validfl, cwf, acc.wfile.data[1], float(0),
                                   acc.wfile.t_increase_ms)]
                ELSE IF loaded.err # "none"
                THEN [executed EXCEPT !.err = loaded.err,
                                      !.wfile.filename = la_row[1].SRCXFN]
                ELSE IF loaded.data = <<>>
                THEN [executed EXCEPT !.err = "AttributeError",
                                      !.wfile.filename = la_row[1].SRCXFN]
                ELSE IF loaded.data[1] = <<>> \/ Len(loaded.data[1][1].values) < 2
                THEN [executed EXCEPT !.err = "IndexError",
                                      !.wfile.filename = la_row[1].SRCXFN,
                                      !.wfile.data = loaded.data]
                ELSE
                LET time == loaded.data[1][1]
                    norm == NormalizeTime(Lower(Last(time.name)), time.values[1],
                                          Minus(time.values[2], time.values[1]))
                IN  [executed EXCEPT
                        !.wfile = [filename |-> la_row[1].SRCXFN,
                                   data |-> loaded.data,
                                   t_increase_ms |-> norm.step],
                        !.results = @ \o
                            RowResults(row, validfl, cwf, loaded.data[1],
                                       norm.head, norm.step)]

\* The loop over expres: it stops at the first exception
RECURSIVE ImportRows(_, _, _, _, _, _)
ImportRows(rows, la, cd, vcp, files, acc) ==
    IF rows = <<>> \/ acc.err # "none" THEN acc
    ELSE ImportRows(Tail(rows), la, cd, vcp, files,
                    ImportRow(Head(rows), la, cd, vcp, files, acc))

\* The leak methods of the rows of an experiment, in the order of the rows
LeakMethods(rows) == drop_duplicates([i \in DOMAIN rows |-> rows[i].row.LEAKMTH])

\* The body of the loop over experiments: the Experiment built for one
\* (EXPID, CELLID, STIME), or the exception raised
ImportExperiment(experiment, book, la, rw, vcp, files) ==
    LET rows == expres(rw, la, experiment)
        lm == LeakMethods(rows)
        cell_p == SelectSeq(book.CellProperties, LAMBDA r :
                      r.EXPID = experiment.EXPID /\ r.CELLID = experiment.CELLID)
        cp_node == [i \in DOMAIN cell_p |->
                      [code |-> cell_p[i].PARAMCD, displayName |-> cell_p[i].PARAM,
                       value |-> cell_p[i].VALUE, unit |-> cell_p[i].UNIT]]
        out == ImportRows(rows, la, book.CursorsDefinitions, vcp, files,
                          [err |-> "none", protocols |-> <<>>, results |-> <<>>,
                           wfile |-> NoWaveformData])
    IN  IF lm # <<>> /\ lm[1] \notin LeakMethod_Type
        THEN [err |-> "KeyError", exp |-> <<>>]
        ELSE IF out.err # "none" THEN [err |-> out.err, exp |-> <<>>]
        ELSE [err |-> "none",
              exp |-> <<Experiment(
                  Id(experiment.EXPID, experiment.CELLID), experiment.STIME,
                  out.protocols,
                  <<Results([id |-> Id(experiment.CELLID, <<"">>),
                             properties |-> cp_node],
                            IF lm = <<>> THEN "CIPA_LEAK_METHOD_NONE" ELSE lm[1],
                            <<>>, rsCursors(book.CursorsDefinitions),
                            out.results)>>)>>]

\* from_xlsx(ted_directory, ted_file) on the directory d: the Trial, or the
\* first exception raised
from_xlsx(d) ==
    IF d.book = <<>> THEN [err |-> "FileNotFoundError", trial |-> <<>>]
    ELSE
    LET book == d.book[1]
        la == ReadLiquidAdditions(book)
        rw == ReadResultsWide(book)
        vc == book.IntendedVoltageProtocol
        experiments == drop_duplicates([i \in DOMAIN la |->
                          [EXPID |-> la[i].EXPID, CELLID |-> la[i].CELLID,
                           STIME |-> la[i].STIME]])
    IN  IF la = <<>> THEN [err |-> "KeyError", trial |-> <<>>]
        ELSE IF Len(vc) < 2 \/ Len(vc[1].values) < 2
        THEN [err |-> "IndexError", trial |-> <<>>]
        ELSE IF \E i \in DOMAIN la : Upper(la[i].CONCT) \notin conctypes
        THEN [err |-> "KeyError", trial |-> <<>>]
        ELSE IF \E i \in DOMAIN book.CursorsDefinitions :
                    Upper(book.CursorsDefinitions[i].CURSORT) \notin cursortypes
        THEN [err |-> "KeyError", trial |-> <<>>]
        ELSE
        LET vcp == voltage_command_protocol(vc)
            exps == [i \in DOMAIN experiments |->
                        ImportExperiment(experiments[i], book, la, rw, vcp, d.files)]
            failed == {i \in DOMAIN exps : exps[i].err # "none"}
            lps == liquid_ps(la)
            names == liquids_df(la)
        IN  IF failed # {}
            THEN [err |-> exps[CHOOSE i \in failed : \A j \in failed : i <= j].err,
                  trial |-> <<>>]
            ELSE [err |-> "none",
                  trial |-> <<[
                      devices |-> <<[id |-> Id(book.GeneralInformation.DEVICE_ID, <<"">>),
                                     code |-> book.GeneralInformation.DEVICE_CODE]>>,
                      ljp |-> [value |-> IF la[1].LJP # Blank THEN la[1].LJP ELSE NaN,
                               unit |-> la[1].LJPU],
                      liquids |-> [i \in DOMAIN names |-> cipa_liquid(la, names[i])],
                      protocols |-> <<vcp>> \o [i \in DOMAIN lps |-> cipa_lp(la, lps[i])],
                      experiments |-> [i \in DOMAIN exps |-> exps[i].exp[1]]]>>]

----------------------------------------------------------------------------
(* Assembling a Trial                                                      *)

\* The intended voltage command of a trial: a step from -80 mV to 40 mV
StepCommand ==
    VoltageProtocol(Id(<<"PV-1">>, <<"">>),
        [Waveform(-1, PROTOCOL_VOLTAGE, "voltage", "mV", <<-80, 40>>)
            EXCEPT !.increment = [value |-> 5, unit |-> "ms"]])

\* A Trial with its device and its voltage protocol, and no experiment yet
EmptyTrial ==
    [devices |-> <<[id |-> Id(<<"D1">>, <<"">>), code |-> "dev"]>>,
     ljp |-> [value |-> NaN, unit |-> "mV"],
     liquids |-> <<>>,
     protocols |-> <<StepCommand>>,
     experiments |-> <<>>]

\* The cursors a results set defines
PeakDef == Cursor("Peak", 2, 3, "ms", "MAXIMUM", CursorResult(NaN, ""))

\* The samples recorded for a trace
Samples(tn, type) == IF type = CURRENT THEN <<10 * tn, 10 * tn + 1>> ELSE <<-80, 40>>

SignalName(type) == IF type = CURRENT THEN "current" ELSE "voltage"

SignalUnit(type) == IF type = CURRENT THEN "pA" ELSE "mV"

\* A second set of results of an experiment: a later analysis pass, with one
\* CURRENT result
Reanalysis(cellid) ==
    Results([id |-> cellid, properties |-> <<>>], "CIPA_LEAK_METHOD_SWEEP", <<>>,
            <<>>,
            <<Result(7, TRUE, CURRENT, 1, "s",
                     Waveform(7, CURRENT, "current", "pA", <<70, 71>>), <<>>)>>)

\* The number of traces recorded in an experiment so far
TraceCount(exp) ==
    LET rs == FirstResults(exp).results
    IN  Cardinality({rs[i].traceNumber : i \in DOMAIN rs})

Init ==
    /\ trial = EmptyTrial
    /\ pc = "build"
    /\ dfs = NoTables
    /\ raised = NoException
    /\ format = "csv"
    /\ disk = EmptyDisk
    /\ imported = <<>>
    /\ args = <<>>
    /\ ret = <<>>

\* trial.experiments += [Experiment(id, ...)]: the voltage protocol executed at
\* the start, and one empty set of results
NewExperiment(id, cellid, leak) ==
    /\ pc = "build"
    /\ trial.experiments = <<>>
    /\ trial' = [trial EXCEPT !.experiments = Append(@,
            Experiment(id, "2022-06-27",
                <<ProtocolExecution(StepCommand, 0, "s")>>,
                <<Results([id |-> cellid, properties |-> <<>>], leak, <<>>,
                          <<PeakDef>>, <<>>),
                  Reanalysis(cellid)>>))]
    /\ UNCHANGED <<pc, dfs, raised, format, disk, imported, args, ret>>

\* One more trace of experiment e, recorded at `time`: a result of each of
\* `types`, all with the next trace number
AddTrace(e, time, types, valid, cursors) ==
    /\ pc = "build"
    /\ e \in DOMAIN trial.experiments
    /\ TraceCount(trial.experiments[e]) < MaxTraces
    /\ LET tn == TraceCount(trial.experiments[e]) + 1
           new == [i \in DOMAIN types |->
                     Result(tn, valid, types[i], time, "s",
                            Waveform(tn, types[i], SignalName(types[i]),
                                     SignalUnit(types[i]), Samples(tn, types[i])),
                            IF types[i] = CURRENT THEN cursors ELSE <<>>)]
       IN  trial' = [trial EXCEPT
                !.experiments[e].resultsSet[1].results = @ \o new]
    /\ UNCHANGED <<pc, dfs, raised, format, disk, imported, args, ret>>

LiquidExecutions(exp) ==
    SelectSeq(exp.protocols, LAMBDA p : p.protocol.type = PROTOCOL_LIQUID)

\* One more liquid addition of experiment e, at `time`.  Additions are
\* appended in the order of their times: the export sorts them by time and
\* keeps the order of those at the same time, so every list of additions
\* exports as the list of this form that it sorts to.
AddLiquid(e, time, protocol) ==
    /\ pc = "build"
    /\ e \in DOMAIN trial.experiments
    /\ Len(LiquidExecutions(trial.experiments[e])) < MaxAdds
    /\ \A i \in DOMAIN LiquidExecutions(trial.experiments[e]) :
            LiquidExecutions(trial.experiments[e])[i].time <= time
    /\ trial' = [trial EXCEPT !.experiments[e].protocols =
                    Append(@, ProtocolExecution(protocol, time, "s"))]
    /\ UNCHANGED <<pc, dfs, raised, format, disk, imported, args, ret>>

\* dfs = cells_cursors_liquids_results_dataframes(trial)
Project ==
    /\ pc = "build"
    /\ dfs' = cells_cursors_liquids_results_dataframes(trial)
    /\ raised' = Exception(dfs'.err, "")
    /\ pc' = "projected"
    /\ UNCHANGED <<trial, format, disk, imported, args, ret>>

Times == 0..MaxTime

Control ==
    LiquidProtocol(Id(<<"P-ctl">>, <<"">>), Liquid(Id(<<"L-ctl">>, <<"">>), "DMSO"),
                   0, "uM", "CIPA_PROTOCOL_LIQUID_CONCENTRATION_NOMINAL", TRUE, FALSE)

Drug ==
    LiquidProtocol(Id(<<"P-drug">>, <<"">>), Liquid(Id(<<"L-drug">>, <<"">>), "dofetilide"),
                   3, "uM", "CIPA_PROTOCOL_LIQUID_CONCENTRATION_NOMINAL", FALSE, FALSE)

Exp1 == Id(<<"E1">>, <<"">>)

Cell1 == Id(<<"C1">>, <<"">>)

PeakAt(value) == Cursor("Peak", NaN, NaN, "", "", CursorResult(value, "pA"))

\* What a trace holds: a voltage recording only, or a current recording that
\* is valid or not and has the cursor Peak evaluated or not
TraceKinds ==
    {[types |-> <<VOLTAGE>>, valid |-> TRUE, cursors |-> <<>>],
     [types |-> <<CURRENT>>, valid |-> TRUE, cursors |-> <<>>],
     [types |-> <<CURRENT>>, valid |-> FALSE, cursors |-> <<>>],
     [types |-> <<CURRENT>>, valid |-> TRUE, cursors |-> <<PeakAt(-150)>>]}

Next ==
    \/ NewExperiment(Exp1, Cell1, "CIPA_LEAK_METHOD_NONE")
    \/ \E time \in Times, kind \in TraceKinds :
            AddTrace(1, time, kind.types, kind.valid, kind.cursors)
    \/ \E time \in Times, protocol \in {Control, Drug} : AddLiquid(1, time, protocol)
    \/ Project

Spec == Init /\ [][Next]_vars

----------------------------------------------------------------------------
(* Export and import of a dataset                                          *)

\* One more trace recorded no earlier than the traces before it
AddTraceInOrder(e, time, types, valid, cursors) ==
    /\ e \in DOMAIN trial.experiments
    /\ \A r \in Range(FirstResults(trial.experiments[e]).results) :
            r.elapsedTime <= time
    /\ AddTrace(e, time, types, valid, cursors)

\* What a call of to_xlsx leaves: the exception it raised, the files it wrote
ToXlsxReturns(out) ==
    /\ raised' = out.raised
    /\ disk' = out.disk

\* to_xlsx(trial, edformat=edformat) on the dataset directory
ToXlsx(edformat) ==
    /\ pc = "build"
    /\ ToXlsxReturns(to_xlsx(trial, edformat, disk))
    /\ format' = edformat
    /\ pc' = "exported"
    /\ UNCHANGED <<trial, dfs, imported, args, ret>>

\* What a call of from_xlsx leaves: the trial it returned, the exception it
\* raised
FromXlsxReturns(out) ==
    /\ imported' = out.trial
    /\ raised' = Exception(out.err, "")

\* imported = from_xlsx(directory) on the dataset that to_xlsx wrote
FromXlsx ==
    /\ pc = "exported"
    /\ raised = NoException
    /\ FromXlsxReturns(from_xlsx(disk))
    /\ pc' = "imported"
    /\ UNCHANGED <<trial, dfs, format, disk, args, ret>>

NextXlsx ==
    \/ NewExperiment(Exp1, Cell1, "CIPA_LEAK_METHOD_NONE")
    \/ \E time \in Times, kind \in TraceKinds :
            AddTraceInOrder(1, time, kind.types, kind.valid, kind.cursors)
    \/ \E time \in Times, protocol \in {Control, Drug} : AddLiquid(1, time, protocol)
    \/ \E edformat \in EdFormats \cup {"json"} : ToXlsx(edformat)
    \/ FromXlsx

SpecXlsx == Init /\ [][NextXlsx]_vars

----------------------------------------------------------------------------
(* Import of a dataset whose workbook was filled in by hand                *)

\* A Trial of one experiment: CURRENT traces 1, 2, 3 at 0 s, 1 s, 2 s, the
\* control added at 0 s and the drug at 2 s
TedTrial ==
    [EmptyTrial EXCEPT !.experiments =
        <<Experiment(Exp1, "2022-06-27",
            <<ProtocolExecution(StepCommand, 0, "s"),
              ProtocolExecution(Control, 0, "s"),
              ProtocolExecution(Drug, 2, "s")>>,
            <<Results([id |-> Cell1, properties |-> <<>>], "CIPA_LEAK_METHOD_NONE",
                      <<>>, <<PeakDef>>,
                      [tn \in 1..MaxTraces |->
                          Result(tn, TRUE, CURRENT, tn - 1, "s",
                                 Waveform(tn, CURRENT, "current", "pA",
                                          Samples(tn, CURRENT)),
                                 <<PeakAt(-150)>>)])>>)>>]

\* The dataset directory holds the csv export of TedTrial
InitTed ==
    /\ trial = TedTrial
    /\ pc = "exported"
    /\ dfs = NoTables
    /\ raised = NoException
    /\ format = "csv"
    /\ disk = to_xlsx(TedTrial, "csv", EmptyDisk).disk
    /\ imported = <<>>
    /\ args = <<>>
    /\ ret = <<>>

\* The values typed into the column LEAKMTH: the name of a method, or nothing
LeakCells == {"CIPA_LEAK_METHOD_NONE", "CIPA_LEAK_METHOD_SWEEP", ""}

\* The values typed into the column SRCXFN: "C1.csv", "C1.txt" and
\* "C1.txt:C1.csv"
SourceCells ==
    {<<Dotted(<<"C1">>, <<"csv">>)>>,
     <<Dotted(<<"C1">>, <<"txt">>)>>,
     <<Dotted(<<"C1">>, <<"txt">>), Dotted(<<"C1">>, <<"csv">>)>>}

\* The cell LEAKMTH of row i of the sheet ResultsWide is set to m
SetLeakMethod(i, m) ==
    /\ pc = "exported"
    /\ i \in DOMAIN disk.book[1].ResultsWide
    /\ disk' = [disk EXCEPT !.book[1].ResultsWide[i].LEAKMTH = m]
    /\ UNCHANGED <<trial, pc, dfs, raised, format, imported, args, ret>>

\* Row i of the sheet ResultsWide is deleted
DeleteResultsRow(i) ==
    /\ pc = "exported"
    /\ i \in DOMAIN disk.book[1].ResultsWide
    /\ disk' = [disk EXCEPT !.book[1].ResultsWide =
                    SubSeq(@, 1, i - 1) \o SubSeq(@, i + 1, Len(@))]
    /\ UNCHANGED <<trial, pc, dfs, raised, format, imported, args, ret>>

\* The cell SRCXFN of row i of the sheet LiquidAdditions is set to loc
SetSRCXFN(i, loc) ==
    /\ pc = "exported"
    /\ i \in DOMAIN disk.book[1].LiquidAdditions
    /\ disk' = [disk EXCEPT !.book[1].LiquidAdditions[i].SRCXFN = loc]
    /\ UNCHANGED <<trial, pc, dfs, raised, format, imported, args, ret>>

NextTed ==
    \/ \E i \in 1..MaxTraces, m \in LeakCells : SetLeakMethod(i, m)
    \/ \E i \in 1..MaxTraces : DeleteResultsRow(i)
    \/ \E i \in 1..MaxAdds, loc \in SourceCells : SetSRCXFN(i, loc)
    \/ FromXlsx

SpecTed == InitTed /\ [][NextTed]_vars

----------------------------------------------------------------------------
(* Claims about the tabular projection                                     *)

Projected == pc = "projected" /\ raised = NoException

\* The results of the exported set of results of experiment e, and its rows
RecordedResults(e) == Range(FirstResults(trial.experiments[e]).results)

CurrentResults(e) == {r \in RecordedResults(e) : r.type = CURRENT}

RowsOf(table, e) ==
    SelectSeq(table, LAMBDA r :
        /\ r.EXPID = IdKey(trial.experiments[e].id)
        /\ r.CELLID = IdKey(FirstResults(trial.experiments[e]).cell.id))

Min(S) == CHOOSE x \in S : \A y \in S : x <= y

Max(S) == CHOOSE x \in S : \A y \in S : y <= x

\* The elapsed times of the trace numbers stay in the order of the numbers
TimesIncrease(e) ==
    \A r1, r2 \in RecordedResults(e) :
        r1.traceNumber < r2.traceNumber => r1.elapsedTime < r2.elapsedTime

\* C1 (as claimed): in every projected experiment every recorded trace number
\* lies in exactly one [FIRST, LAST] range of the experiment's LiquidAdditions
\* rows, and the ranges hold recorded trace numbers only.  Stated for the
\* experiments whose results are all CURRENT and whose elapsed times increase
\* with the trace number, where the claim is least demanding.
C1_Partition ==
    Projected =>
        \A e \in DOMAIN trial.experiments :
            (CurrentResults(e) = RecordedResults(e) /\ TimesIncrease(e)) =>
                LET rows == RowsOf(dfs.LiquidAdditions, e)
                    tns == {r.traceNumber : r \in RecordedResults(e)}
                IN  /\ \A tn \in tns :
                          Cardinality({i \in DOMAIN rows :
                              rows[i].FIRST <= tn /\ tn <= rows[i].LAST}) = 1
                    /\ \A i \in DOMAIN rows : \A n \in rows[i].FIRST .. rows[i].LAST :
                          n \in tns

\* The permutations of 1..n
Perms(n) == {f \in [1..n -> 1..n] : \A i, j \in 1..n : f[i] = f[j] => i = j}

\* The rows of an experiment's LiquidAdditions, matched one to one with its
\* distinct liquid additions las (in the order of their times) so that the
\* column `field` of the row of every addition i is one of allowed[i]
RowsMatch(e, field, allowed) ==
    LET las == exp_las(trial.experiments[e])
        rows == RowsOf(dfs.LiquidAdditions, e)
    IN  /\ Len(rows) = Len(las)
        /\ \E f \in Perms(Len(las)) : \A i \in DOMAIN las :
              /\ rows[f[i]].LIQUID = las[i].LIQUID
              /\ rows[f[i]].CONC = las[i].CONC
              /\ rows[f[i]].CTLFL = las[i].CTLFL
              /\ rows[f[i]][field] \in allowed[i]

\* The trace numbers of the earliest results among rs at or after `time`
EarliestFrom(rs, time) ==
    LET late == {r \in rs : r.elapsedTime >= time}
    IN  {r.traceNumber : r \in {x \in late : \A y \in late : x.elapsedTime <= y.elapsedTime}}

\* The trace numbers of the latest results among rs before `time`
LatestBefore(rs, time) ==
    LET early == {r \in rs : r.elapsedTime < time}
    IN  {r.traceNumber : r \in {x \in early : \A y \in early : y.elapsedTime <= x.elapsedTime}}

\* The trace numbers of the latest results among rs
Latest(rs) == {r.traceNumber : r \in {x \in rs : \A y \in rs : y.elapsedTime <= x.elapsedTime}}

\* C3 (as claimed): FIRST of every liquid addition is the trace number of the
\* earliest recorded Result, of any type, at or after the addition
C3_FirstOfAnyResult ==
    Projected =>
        \A e \in DOMAIN trial.experiments :
            RowsMatch(e, "FIRST",
                [i \in DOMAIN exp_las(trial.experiments[e]) |->
                    EarliestFrom(RecordedResults(e),
                                 exp_las(trial.experiments[e])[i].TIME)])

\* C3 (amended): FIRST of every liquid addition is the trace number of the
\* earliest recorded CURRENT Result whose elapsed time is greater than or equal
\* to the addition's, the smallest one if several were recorded at that time
C3_FirstOfCurrent ==
    Projected =>
        \A e \in DOMAIN trial.experiments :
            RowsMatch(e, "FIRST",
                [i \in DOMAIN exp_las(trial.experiments[e]) |->
                    {Min(EarliestFrom(CurrentResults(e),
                                      exp_las(trial.experiments[e])[i].TIME))}])

\* Additions at t=0 and t=2 of an experiment whose traces 1, 2, 3 are all
\* CURRENT and recorded at t=0, 1, 2: the rows have FIRST=1 and FIRST=3
C3_Witness ==
    /\ Projected
    /\ \E i, j \in DOMAIN dfs.LiquidAdditions :
          /\ dfs.LiquidAdditions[i].FIRST = 1
          /\ dfs.LiquidAdditions[j].FIRST = 3
    /\ CurrentResults(1) = RecordedResults(1)
    /\ TimesIncrease(1)
    /\ {p.time : p \in Range(LiquidExecutions(trial.experiments[1]))} = {0, 2}

\* LAST as the claim has it, over the results rs: of an addition that has a
\* later one, a latest result before the later addition; of the final
\* addition, a latest result of the experiment
LastAmong(rs, las, i) ==
    IF i < Len(las) THEN LatestBefore(rs, las[i + 1].TIME) ELSE Latest(rs)

\* C4 (as claimed): LAST of every liquid addition is the trace number of the
\* latest recorded Result, of any type, before the next addition, and of the
\* latest recorded Result for the final addition
C4_LastOfAnyResult ==
    Projected =>
        \A e \in DOMAIN trial.experiments :
            RowsMatch(e, "LAST",
                [i \in DOMAIN exp_las(trial.experiments[e]) |->
                    LastAmong(RecordedResults(e), exp_las(trial.experiments[e]), i)])

\* C4 (amended): LAST of every liquid addition that has a later addition is
\* the trace number of the latest recorded CURRENT Result whose elapsed time is
\* strictly less than the next addition's; LAST of the final addition is the
\* trace number of the latest recorded CURRENT Result of the experiment (the
\* largest number if several were recorded at that time)
C4_LastOfCurrent ==
    Projected =>
        \A e \in DOMAIN trial.experiments :
            RowsMatch(e, "LAST",
                [i \in DOMAIN exp_las(trial.experiments[e]) |->
                    {Max(LastAmong(CurrentResults(e),
                                   exp_las(trial.experiments[e]), i))}])

\* Additions at t=0 and t=2 of an experiment whose traces 1, 2, 3 are all
\* CURRENT and recorded at t=0, 1, 2: the rows have LAST=2 and LAST=3
C4_Witness ==
    /\ Projected
    /\ \E i, j \in DOMAIN dfs.LiquidAdditions :
          /\ dfs.LiquidAdditions[i].FIRST = 1 /\ dfs.LiquidAdditions[i].LAST = 2
          /\ dfs.LiquidAdditions[j].FIRST = 3 /\ dfs.LiquidAdditions[j].LAST = 3
    /\ CurrentResults(1) = RecordedResults(1)
    /\ TimesIncrease(1)

\* C5: the ResultsWide table has exactly one row for every CURRENT result of
\* the first set of results of each experiment, and no other row: none for a
\* result of another type, none for a result of a later set of results
C5_OneRowPerCurrent ==
    Projected =>
        \A e \in DOMAIN trial.experiments :
            LET rows == RowsOf(dfs.ResultsWide, e)
            IN  /\ \A r \in CurrentResults(e) :
                      Cardinality({i \in DOMAIN rows :
                          /\ rows[i].TRACENUM = r.traceNumber
                          /\ rows[i].ELTIME = r.elapsedTime}) = 1
                /\ \A i \in DOMAIN rows :
                      /\ rows[i].RESTYPE = CURRENT
                      /\ \E r \in CurrentResults(e) :
                            /\ rows[i].TRACENUM = r.traceNumber
                            /\ rows[i].ELTIME = r.elapsedTime
                /\ Len(rows) = Len(dfs.ResultsWide)

\* A projected experiment with a VOLTAGE result and two CURRENT results in its
\* first set of results (and a CURRENT result in its second): two rows
C5_Witness ==
    /\ Projected
    /\ Cardinality(CurrentResults(1)) = 2
    /\ Cardinality(RecordedResults(1)) = 3
    /\ Len(trial.experiments[1].resultsSet) = 2
    /\ Len(dfs.ResultsWide) = 2

\* C6: for every exported CURRENT result and every cursor attached to it, the
\* row of the result's trace number has, in the column named after the cursor,
\* the cursor's evaluated value for that trace
C6_CursorColumn ==
    Projected =>
        \A e \in DOMAIN trial.experiments : \A r \in CurrentResults(e) :
            \A c \in Range(r.cursors) :
                \E i \in DOMAIN dfs.ResultsWide :
                    /\ dfs.ResultsWide[i].EXPID = IdKey(trial.experiments[e].id)
                    /\ dfs.ResultsWide[i].TRACENUM = r.traceNumber
                    /\ c.name \in DOMAIN dfs.ResultsWide[i].cur
                    /\ dfs.ResultsWide[i].cur[c.name] = c.result.value
                    /\ \A j \in DOMAIN dfs.ResultsWide :
                          (/\ dfs.ResultsWide[j].EXPID = dfs.ResultsWide[i].EXPID
                           /\ dfs.ResultsWide[j].TRACENUM = r.traceNumber) => j = i

\* Trace 3 is a CURRENT result with the cursor Peak evaluated to -150, after two
\* CURRENT traces without it: the row of trace 3 has Peak = -150, the others NaN
C6_Witness ==
    /\ Projected
    /\ Len(dfs.ResultsWide) = 3
    /\ \E i \in DOMAIN dfs.ResultsWide :
          /\ dfs.ResultsWide[i].TRACENUM = 3
          /\ dfs.ResultsWide[i].cur = [n \in {"Peak"} |-> -150]
    /\ \E i \in DOMAIN dfs.ResultsWide :
          /\ dfs.ResultsWide[i].TRACENUM = 1
          /\ dfs.ResultsWide[i].cur = [n \in {"Peak"} |-> NaN]

----------------------------------------------------------------------------
(* Claims about the export to a dataset and the import of it               *)

Exported == pc = "exported" /\ raised = NoException

Imported == pc = "imported" /\ raised = NoException

\* The parts of the tables that a round trip is to preserve: the trace
\* numbers of ResultsWide, the cursor values that are numbers, and the
\* [FIRST, LAST] of the LiquidAdditions rows in their order
TraceNumbers(tables) ==
    {tables.ResultsWide[i].TRACENUM : i \in DOMAIN tables.ResultsWide}

CursorCells(tables) ==
    UNION {{<<tables.ResultsWide[i].TRACENUM, n, tables.ResultsWide[i].cur[n]>> :
                n \in {m \in DOMAIN tables.ResultsWide[i].cur :
                          tables.ResultsWide[i].cur[m] # NaN}} :
           i \in DOMAIN tables.ResultsWide}

LiquidRangesOf(tables) ==
    [i \in DOMAIN tables.LiquidAdditions |->
        <<tables.LiquidAdditions[i].FIRST, tables.LiquidAdditions[i].LAST>>]

SameProjection(a, b) ==
    /\ b.err = "none"
    /\ TraceNumbers(a) = TraceNumbers(b)
    /\ CursorCells(a) \subseteq CursorCells(b)
    /\ LiquidRangesOf(a) = LiquidRangesOf(b)

\* C2: for every Trial that to_xlsx exports, from_xlsx returns a Trial with the
\* same projection: the same trace numbers, the same value for every (trace
\* number, cursor name) pair and the same [FIRST, LAST] of every liquid addition
C2_RoundTrip ==
    pc = "imported" =>
        /\ raised = NoException
        /\ SameProjection(cells_cursors_liquids_results_dataframes(trial),
                          cells_cursors_liquids_results_dataframes(imported[1]))

\* C7: to_xlsx raises EncapsulatedDataFileError, with the requested edformat as
\* its identifier, when and only when edformat is none of csv, zip and xlsx
C7_UnsupportedFormat ==
    pc = "exported" =>
        /\ format \notin EdFormats <=> raised.name = "EncapsulatedDataFileError"
        /\ format \notin EdFormats => raised.filename = format

\* The outcome of from_xlsx on the dataset that to_xlsx(edformat="csv") writes
\* for the trial
ImportOfCsv(t) == from_xlsx(to_xlsx(t, "csv", EmptyDisk).disk)

\* The samples of the traces of an imported trial, by experiment and result
SamplesOf(t) ==
    [e \in DOMAIN t.experiments |->
        [k \in DOMAIN FirstResults(t.experiments[e]).results |->
            <<FirstResults(t.experiments[e]).results[k].traceNumber,
              FirstResults(t.experiments[e]).results[k].waveform.digits>>]]

SameImport(out) ==
    /\ out.err = "none"
    /\ SamplesOf(out.trial[1]) = SamplesOf(imported[1])
    /\ out.trial = imported

\* C10: from_xlsx resolves the locator that to_xlsx(edformat="zip") writes to
\* the member of the archive, and imports for every trace the samples that it
\* imports after to_xlsx(edformat="csv") of the same trial
C10_ZipAsCsv ==
    (pc = "imported" /\ format = "zip") =>
        /\ raised = NoException
        /\ SameImport(ImportOfCsv(trial))

\* A zip export of three traces, two of them in the range of the liquid
\* addition, imported with their samples
C10_Witness ==
    /\ Imported
    /\ format = "zip"
    /\ TraceCount(trial.experiments[1]) = 3
    /\ SamplesOf(imported[1]) = <<(<<(<<2, <<20, 21>> >>), <<3, <<30, 31>> >> >>)>>

----------------------------------------------------------------------------
(* Claims about the import of a dataset filled in by hand                  *)

\* The sheets of the dataset as from_xlsx reads them
SheetLA == disk.book[1].LiquidAdditions

SheetRW == disk.book[1].ResultsWide

\* The column LEAKMTH, and the methods named in it in the order of the rows
LeakColumn == [i \in DOMAIN SheetRW |-> SheetRW[i].LEAKMTH]

MethodsNamed == SelectSeq(drop_duplicates(LeakColumn), LAMBDA m : m # "")

\* Whether a locator names a file of a kind that import reads: a csv file, a
\* csv member of a zip archive, or an xlsx file
SupportedSource(loc) ==
    \/ Len(loc) = 1 /\ LastExt(loc) \in {"csv", "xlsx"}
    \/ Len(loc) = 2 /\ LastExt(<<loc[1]>>) = "zip" /\ LastExt(loc) = "csv"

\* The rows of LiquidAdditions whose range holds the trace of a ResultsWide row
RowsWithTraces ==
    {i \in DOMAIN SheetLA :
        \E k \in DOMAIN SheetRW : /\ SheetLA[i].FIRST <= SheetRW[k].TRACENUM
                                  /\ SheetRW[k].TRACENUM <= SheetLA[i].LAST}

\* C8: from_xlsx raises ParseFileError whenever the waveform file named by a
\* SRCXFN of LiquidAdditions is neither a csv file, nor a csv file inside a zip
\* archive, nor an xlsx file
C8_UnsupportedExtension ==
    (/\ pc = "imported"
     /\ \A i \in DOMAIN LeakColumn : LeakColumn[i] \in LeakMethod_Type
     /\ \E i \in RowsWithTraces : ~SupportedSource(SheetLA[i].SRCXFN))
        => raised.name = "ParseFileError"

\* C9: when the ResultsWide rows of an experiment name more than one leak
\* method, or none, from_xlsx does not raise, and the leak method of the
\* experiment's results is the first one named, or CIPA_LEAK_METHOD_NONE
C9_LeakNeverFatal ==
    (/\ pc = "imported"
     /\ \A i \in DOMAIN SheetLA : SupportedSource(SheetLA[i].SRCXFN)
     /\ Len(MethodsNamed) # 1)
        => /\ raised = NoException
           /\ FirstResults(imported[1].experiments[1]).leakMethod =
                 IF MethodsNamed = <<>> THEN "CIPA_LEAK_METHOD_NONE"
                 ELSE MethodsNamed[1]

\* The samples of the CURRENT results of the first set of results of every
\* experiment of a trial, as import is to return them
CurrentSamplesOf(t) ==
    [e \in DOMAIN t.experiments |->
        LET cur == SelectSeq(FirstResults(t.experiments[e]).results,
                             LAMBDA r : r.type = CURRENT)
        IN  [k \in DOMAIN cur |-> <<cur[k].traceNumber, cur[k].waveform.digits>>]]

\* C11: after an export with edformat = "xlsx", from_xlsx recognises the
\* locator "waveforms.xlsx:<sheetname>" and loads the traces of an experiment
\* from the sheet of the experiment's cell: it does not raise, and no imported
\* trace has samples other than the exported ones
C11_XlsxLocator ==
    (pc = "imported" /\ format = "xlsx") =>
        /\ raised = NoException
        /\ \A e \in DOMAIN imported[1].experiments :
              Range(CurrentSamplesOf(imported[1])[e])
                  \subseteq Range(CurrentSamplesOf(trial)[e])

----------------------------------------------------------------------------
(* Claims about the columns and the cells of the exported tables           *)

\* The columns that a ResultsWide table is required to have
RequiredWideColumns ==
    {"EXPID", "CELLID", "RESTYPE", "LEAKMTH", "ELTIME", "ELTIMEU", "TRACENUM",
     "ANLFL", "SRCXFN", "LIQUID", "CONC", "CONCU", "CONCT"}

\* The names of the cursors attached to the CURRENT results that are exported
CursorNames ==
    UNION {{c.name : c \in Range(r.cursors)} :
              r \in UNION {CurrentResults(e) : e \in DOMAIN trial.experiments}}

\* C12: the ResultsWide table that export produces has every required column,
\* SRCXFN among them, and one column per distinct cursor name
C12_WideColumns ==
    Projected =>
        \A i \in DOMAIN dfs.ResultsWide :
            /\ RequiredWideColumns \subseteq DOMAIN dfs.ResultsWide[i]
            /\ DOMAIN dfs.ResultsWide[i].cur = CursorNames

\* The trial with the sets of results after the first one of every experiment
\* replaced by `later`
WithLaterSets(t, later) ==
    [t EXCEPT !.experiments =
        [e \in DOMAIN t.experiments |->
            [t.experiments[e] EXCEPT
                !.resultsSet = <<t.experiments[e].resultsSet[1]>> \o later]]]

\* Sets of results that an experiment may hold after its first one
LaterSets == {<<>>, <<Reanalysis(Exp1)>>, <<Reanalysis(Cell1), Reanalysis(Exp1)>>}

\* C13: the exception raised and the dataset written by to_xlsx are those of
\* every trial that differs only in the sets of results after the first one
C13_FirstSetOnly ==
    pc = "exported" =>
        \A later \in LaterSets :
            to_xlsx(WithLaterSets(trial, later), format, EmptyDisk)
                = [raised |-> raised, disk |-> disk]

\* An experiment with a second set of results, holding trace 7, was exported:
\* the workbook and the waveform file hold the traces of the first set only
C13_Witness ==
    /\ Exported
    /\ format = "csv"
    /\ Len(trial.experiments[1].resultsSet) = 2
    /\ trial.experiments[1].resultsSet[2].results[1].traceNumber = 7
    /\ TraceNumbers(disk.book[1]) = {1, 2}
    /\ Len(disk.files[Dotted(<<"C1">>, <<"csv">>)].parts[Dotted(<<"C1">>, <<"csv">>)]) = 3

\* C14: a trial with a device and no experiment is projected and exported
\* without an exception, into tables that have no row
C14_NoExperiments ==
    (pc = "projected" /\ trial.experiments = <<>> /\ trial.devices # <<>>) =>
        /\ raised = NoException
        /\ dfs.CellProperties = <<>> /\ dfs.LiquidAdditions = <<>>
        /\ dfs.CursorsDefinitions = <<>> /\ dfs.ResultsWide = <<>>
        /\ to_xlsx(trial, "csv", EmptyDisk).raised = NoException

----------------------------------------------------------------------------
(* Calls of Waveform.timeseries_to_df on a waveform of its own             *)

\* The digits of a waveform: at most MaxDigits of them, each within MaxDigit
\* of zero
MaxDigits == 2

MaxDigit == 2

DigitSeqs == UNION {[1..n -> (0 - MaxDigit)..MaxDigit] : n \in 0..MaxDigits}

\* The waveforms that timeseries_to_df is called on: traces 1 and 2 with any
\* digits, a scale of -1, 1, 2 or 3 and an origin of -1, 0 or 5
WaveInputs ==
    {[Waveform(tn, CURRENT, "current", "pA", d)
        EXCEPT !.scale.value = s, !.origin.value = o] :
        tn \in {1, 2}, d \in DigitSeqs, s \in {-1, 1, 2, 3}, o \in {-1, 0, 5}}

InitWave ==
    /\ trial = EmptyTrial
    /\ pc = "call"
    /\ dfs = NoTables
    /\ raised = NoException
    /\ format = "csv"
    /\ disk = EmptyDisk
    /\ imported = <<>>
    /\ args \in WaveInputs
    /\ ret = <<>>

\* ret = args.timeseries_to_df(includetime)
TimeseriesToDf(includetime) ==
    /\ pc = "call"
    /\ ret' = timeseries_to_df(args, includetime)
    /\ pc' = "timeseries_to_df"
    /\ UNCHANGED <<trial, dfs, raised, format, disk, imported, args>>

NextWave == \E includetime \in BOOLEAN : TimeseriesToDf(includetime)

SpecWave == InitWave /\ [][NextWave]_vars

\* The sample values of the table that timeseries_to_df returned: those of its
\* last column
SignalValues(df) == Last(df).values

\* C15: the samples that timeseries_to_df emits are digit * scale + origin of
\* the waveform, in the order of the digits, and they are those emitted for
\* every waveform with the same digits, scale and origin
C15_AffineDecode ==
    pc = "timeseries_to_df" =>
        /\ SignalValues(ret) =
              [i \in DOMAIN args.digits |->
                  args.digits[i] * args.scale.value + args.origin.value]
        /\ \A wf \in WaveInputs :
              (/\ wf.digits = args.digits
               /\ wf.scale.value = args.scale.value
               /\ wf.origin.value = args.origin.value)
                  => SignalValues(timeseries_to_df(wf, FALSE)) = SignalValues(ret)

\* The digits 2, -1 with scale 3 and origin 5 were emitted as 11, 2 after the
\* time column
C15_Witness ==
    /\ pc = "timeseries_to_df"
    /\ args.digits = <<2, -1>>
    /\ args.scale.value = 3
    /\ args.origin.value = 5
    /\ Len(ret) = 2
    /\ SignalValues(ret) = <<11, 2>>

----------------------------------------------------------------------------
(* Import of a dataset whose waveform file was recorded by another program *)

\* a + b
Plus(a, b) == Minus(a, Dec(0 - b.m, b.e))

\* The unit suffixes of a time column, the first times and the sampling steps
\* of a recording: 0, 0.002, 5 and 20; 0.0000001, 0.0005, 1 and 2.5
TimeUnits == {"s", "S", "ms", "us", "min"}
TimeHeads == {Dec(0, 0), Dec(2, -3), Dec(5, 0), Dec(2, 1)}
TimeSteps == {Dec(1, -7), Dec(5, -4), Dec(1, 0), Dec(25, -1)}

\* The file of the waveforms of the cell C1 and its table
CellFile == Dotted(<<"C1">>, <<"csv">>)
TableOf(d) == d.files[CellFile].parts[CellFile]

\* The time column of the table is replaced by the one of a recording in the
\* unit time_units that starts at time_head and samples every time_step
RecordTimes(time_units, time_head, time_step) ==
    /\ pc = "exported"
    /\ disk' = [disk EXCEPT !.files[CellFile].parts[CellFile][1] =
                    Column(<<"t", time_units>>,
                           [i \in DOMAIN @.values |->
                               Plus(time_head, Dec((i - 1) * time_step.m, time_step.e))])]
    /\ UNCHANGED <<trial, pc, dfs, raised, format, imported, args, ret>>

NextAxis ==
    \/ \E time_units \in TimeUnits, time_head \in TimeHeads, time_step \in TimeSteps :
            RecordTimes(time_units, time_head, time_step)
    \/ FromXlsx

SpecAxis == InitTed /\ [][NextAxis]_vars

\* The time column of the file, its unit suffix in lower case and its step
FileTime == TableOf(disk)[1]
FileUnit == Lower(Last(FileTime.name))
FileStep == Minus(FileTime.values[2], FileTime.values[1])

\* The power of ten that converts a unit to milliseconds
ToMilli(unit) == CASE unit = "s" -> 3 [] unit = "ms" -> 0 [] unit = "us" -> -3

\* The waveforms of the imported trial
ImportedWaveforms ==
    UNION {{r.waveform : r \in Range(FirstResults(imported[1].experiments[e]).results)} :
              e \in DOMAIN imported[1].experiments}

\* C16: when the time column of the waveform file ends with s, ms or us, the
\* increment of every imported waveform is the step between the first two
\* times of the file in milliseconds (x 1e3, x 1, x 1e-3), with the unit ms
C16_IncrementInMs ==
    (Imported /\ FileUnit \in {"s", "ms", "us"}) =>
        \A wf \in ImportedWaveforms :
            wf.increment = [value |-> Scaled(FileStep, ToMilli(FileUnit)),
                            unit |-> "ms"]

\* A recording in microseconds sampled every 2.5 us and imported: the three
\* waveforms have the increment 0.0025 ms
C16_Witness ==
    /\ Imported
    /\ FileUnit = "us"
    /\ FileStep = Dec(25, -1)
    /\ Cardinality(ImportedWaveforms) = 3
    /\ \A wf \in ImportedWaveforms : wf.increment = [value |-> Dec(25, -4), unit |-> "ms"]

----------------------------------------------------------------------------
(* The normalisation of a time axis on its own                             *)

\* The axes normalised: every unit, first time and step of a recording
AxisInputs ==
    {[unit |-> u, head |-> h, step |-> st] :
        u \in TimeUnits, h \in TimeHeads, st \in TimeSteps}

InitNorm ==
    /\ trial = EmptyTrial
    /\ pc = "call"
    /\ dfs = NoTables
    /\ raised = NoException
    /\ format = "csv"
    /\ disk = EmptyDisk
    /\ imported = <<>>
    /\ args \in AxisInputs
    /\ ret = <<>>

\* The axis in args is normalised
Normalize ==
    /\ pc = "call"
    /\ ret' = TimeAxis(args)
    /\ pc' = "normalized"
    /\ UNCHANGED <<trial, dfs, raised, format, disk, imported, args>>

\* The axis that the normalisation returned is normalised
NormalizeAgain ==
    /\ pc = "normalized"
    /\ ret' = TimeAxis(ret)
    /\ pc' = "normalized_twice"
    /\ UNCHANGED <<trial, dfs, raised, format, disk, imported, args>>

NextNorm == Normalize \/ NormalizeAgain

SpecNorm == InitNorm /\ [][NextNorm]_vars

\* C17: a normalised axis has the unit ms and normalising it changes neither
\* its first time nor its step nor its unit: normalising an axis twice gives
\* what normalising it once gives, whatever its unit
C17_NormalizeTwice ==
    /\ pc = "normalized" => (ret.unit = "ms" /\ TimeAxis(ret) = ret)
    /\ pc = "normalized_twice" => ret = TimeAxis(args)

\* An axis in an unknown unit that starts at 20 and steps by 0.0000001,
\* normalised twice: it starts at 0.02 ms and steps by 0.0001 ms
C17_Witness ==
    /\ pc = "normalized_twice"
    /\ args = [unit |-> "min", head |-> Dec(2, 1), step |-> Dec(1, -7)]
    /\ ret = [unit |-> "ms", head |-> Dec(2, -2), step |-> Dec(1, -4)]

----------------------------------------------------------------------------
(* copy.deepcopy of a Trial.  The objects live in a heap: the object at the *)
(* address a is heap[a], with its class, the value of its scalar fields     *)
(* and, for every field that refers to objects, the addresses referred to   *)
(* (one for an object, several for a list, none for None).                  *)

Obj(class, value, refs) == [class |-> class, value |-> value, refs |-> refs]

NoRefs == [f \in {} |-> <<>>]

\* The fields in the order the __deepcopy__ methods copy them
FieldOrder ==
    <<"study", "ljp", "id", "device", "devices", "waveform", "liquid", "liquids",
      "protocol", "protocols", "cell", "cursors", "results", "resultsSet",
      "experiments">>

\* The fields that the __deepcopy__ of a class copies with copy.deepcopy; a
\* class without __deepcopy__ has all its fields copied
DeepFields(class) ==
    CASE class = "Trial" ->
            {"study", "ljp", "devices", "liquids", "protocols", "experiments"}
      [] class = "Device" -> {}
      [] class = "Liquid" -> {"id"}
      [] class = "Protocol" -> {"id", "waveform", "liquid"}
      [] class = "Experiment" -> {"id", "device", "protocols", "resultsSet"}
      [] class = "ProtocolExecution" -> {"protocol"}
      [] OTHER -> Range(FieldOrder)

\* copy.deepcopy(heap[a], memo): st holds the heap and the memo; the result
\* holds them after the copy, and the address of the copy in out.  The copy
\* starts as copy.copy of the object, with the fields of the original.
RECURSIVE deepcopy(_, _)
RECURSIVE deepcopy_list(_, _)
RECURSIVE deepcopy_fields(_, _, _)

CopiedObject(r, o, a) ==
    [heap |-> Append(r.heap, [o EXCEPT !.refs = r.refs]),
     memo |-> r.memo @@ (a :> (Len(r.heap) + 1)),
     out |-> Len(r.heap) + 1]

deepcopy(st, a) ==
    IF a \in DOMAIN st.memo
    THEN [heap |-> st.heap, memo |-> st.memo, out |-> st.memo[a]]
    ELSE CopiedObject(
            deepcopy_fields(st, st.heap[a].refs,
                SelectSeq(FieldOrder, LAMBDA f :
                    /\ f \in DOMAIN st.heap[a].refs
                    /\ f \in DeepFields(st.heap[a].class))),
            st.heap[a], a)

CopiedField(c, refs, fields) ==
    deepcopy_fields([heap |-> c.heap, memo |-> c.memo],
                    [refs EXCEPT ![Head(fields)] = c.outs], Tail(fields))

deepcopy_fields(st, refs, fields) ==
    IF fields = <<>> THEN [heap |-> st.heap, memo |-> st.memo, refs |-> refs]
    ELSE CopiedField(deepcopy_list(st, refs[Head(fields)]), refs, fields)

CopiedItem(out, r) == [r EXCEPT !.outs = <<out>> \o @]

CopiedHead(c, rest) ==
    CopiedItem(c.out, deepcopy_list([heap |-> c.heap, memo |-> c.memo], rest))

deepcopy_list(st, addresses) ==
    IF addresses = <<>> THEN [heap |-> st.heap, memo |-> st.memo, outs |-> <<>>]
    ELSE CopiedHead(deepcopy(st, Head(addresses)), Tail(addresses))

\* The heap of a Trial at the address 16: a device, a liquid, a protocol with
\* a waveform and the liquid, and an experiment with an execution of the
\* protocol and a result; the lists of the Trial and the device of the
\* experiment are filled or not
TrialHeap(devices, device, liquids, protocols, experiments) ==
    <<Obj("Id", "D1", NoRefs),
      Obj("Device", "dev", [f \in {"id"} |-> <<1>>]),
      Obj("Id", "L1", NoRefs),
      Obj("Liquid", "control", [f \in {"id"} |-> <<3>>]),
      Obj("Id", "P1", NoRefs),
      Obj("Waveform", "command", NoRefs),
      Obj("Protocol", "step",
          [f \in {"id", "waveform", "liquid"} |->
              CASE f = "id" -> <<5>> [] f = "waveform" -> <<6>> [] OTHER -> <<4>>]),
      Obj("Id", "E1", NoRefs),
      Obj("ProtocolExecution", "0 s", [f \in {"protocol"} |-> <<7>>]),
      Obj("Waveform", "trace", NoRefs),
      Obj("Result", "1", [f \in {"waveform", "cursors"} |->
              IF f = "waveform" THEN <<10>> ELSE <<>>]),
      Obj("Id", "C1", NoRefs),
      Obj("Cell", "", [f \in {"id"} |-> <<12>>]),
      Obj("Results", "", [f \in {"cell", "cursors", "results"} |->
              CASE f = "cell" -> <<13>> [] f = "results" -> <<11>> [] OTHER -> <<>>]),
      Obj("Experiment", "2022-06-27",
          [f \in {"id", "device", "protocols", "resultsSet"} |->
              CASE f = "id" -> <<8>> [] f = "device" -> device
                [] f = "protocols" -> <<9>> [] OTHER -> <<14>>]),
      Obj("Trial", "trial",
          [f \in {"study", "ljp", "devices", "liquids", "protocols", "experiments"} |->
              CASE f = "devices" -> devices [] f = "liquids" -> liquids
                [] f = "protocols" -> protocols [] f = "experiments" -> experiments
                [] OTHER -> <<>>])>>

TrialAddress == 16

CopyInputs ==
    {[heap |-> TrialHeap(devices, device, liquids, protocols, experiments),
      root |-> TrialAddress] :
        devices \in {<<>>, <<2>>}, device \in {<<>>, <<2>>}, liquids \in {<<>>, <<4>>},
        protocols \in {<<>>, <<7>>}, experiments \in {<<>>, <<15>>}}

InitCopy ==
    /\ trial = EmptyTrial
    /\ pc = "call"
    /\ dfs = NoTables
    /\ raised = NoException
    /\ format = "csv"
    /\ disk = EmptyDisk
    /\ imported = <<>>
    /\ args \in CopyInputs
    /\ ret = <<>>

CopyReturns(c) == ret' = [heap |-> c.heap, root |-> c.out]

\* copy.deepcopy(trial) of the Trial in args
Deepcopy ==
    /\ pc = "call"
    /\ CopyReturns(deepcopy([heap |-> args.heap, memo |-> EmptyMap], args.root))
    /\ pc' = "copied"
    /\ UNCHANGED <<trial, dfs, raised, format, disk, imported, args>>

\* The addresses of the objects reached from the object at an address
RECURSIVE Reach(_, _)
Reach(heap, set) ==
    IF \A a \in set : \A f \in DOMAIN heap[a].refs : Range(heap[a].refs[f]) \subseteq set
    THEN set
    ELSE Reach(heap, set \cup UNION {UNION {Range(heap[a].refs[f]) :
                                                f \in DOMAIN heap[a].refs} :
                                        a \in set})

\* The classes of the objects that a Trial owns
OwnedClasses == {"Id", "Protocol", "Liquid", "Device", "Waveform"}

\* A scalar field of an owned object of the copy is assigned
ChangeThroughCopy(a) ==
    /\ pc = "copied"
    /\ a \in Reach(ret.heap, {ret.root})
    /\ ret.heap[a].class \in OwnedClasses
    /\ ret' = [ret EXCEPT !.heap[a].value = "changed"]
    /\ pc' = "changed"
    /\ UNCHANGED <<trial, dfs, raised, format, disk, imported, args>>

MaxHeap == 32

NextCopy ==
    \/ Deepcopy
    \/ \E a \in 1..MaxHeap : ChangeThroughCopy(a)

SpecCopy == InitCopy /\ [][NextCopy]_vars

\* C18: after copy.deepcopy of a Trial no Id, Protocol, Liquid, Device or
\* Waveform is reached both from the copy and from the original, and an
\* assignment to such an object of the copy leaves every object of the
\* original as it was
C18_OwnedObjectsCopied ==
    pc \in {"copied", "changed"} =>
        /\ \A a \in Reach(ret.heap, {ret.root}) \cap Reach(ret.heap, {args.root}) :
              ret.heap[a].class \notin OwnedClasses
        /\ \A a \in Reach(args.heap, {args.root}) : ret.heap[a] = args.heap[a]

----------------------------------------------------------------------------
(* Claims about the cursors and the analysed traces                        *)

\* The names of the cursor definitions of a set of results, and the names of
\* the cursors attached to its results
DefinedCursors(rs) == {c.name : c \in Range(rs.cursors)}
AttachedCursors(rs) == UNION {{c.name : c \in Range(r.cursors)} : r \in Range(rs.results)}

\* C19: in the Trial that from_xlsx returns, every Cursor attached to a Result
\* has the name of one of the cursor definitions of the Results that holds
\* the Result
C19_CursorsDefined ==
    Imported =>
        \A e \in DOMAIN imported[1].experiments :
            \A rs \in Range(imported[1].experiments[e].resultsSet) :
                AttachedCursors(rs) \subseteq DefinedCursors(rs)

\* An imported experiment of two results with the cursor Peak attached, one
\* of them evaluated to -150
C19_Witness ==
    /\ Imported
    /\ Len(imported[1].experiments) = 1
    /\ Len(imported[1].experiments[1].resultsSet[1].results) = 2
    /\ AttachedCursors(imported[1].experiments[1].resultsSet[1]) = {"Peak"}
    /\ \E r \in Range(imported[1].experiments[1].resultsSet[1].results) :
          \E c \in Range(r.cursors) : c.result.value = -150

\* The numbers listed in a ";"-joined list: its tokens, but for the token ''
\* of the empty list
Listed(anl) == Range(anl) \ {EmptyStr}

\* The trace numbers, as ANL writes them, of the valid CURRENT results of
\* experiment e within the range of a LiquidAdditions row
ValidCurrentIn(e, xla) ==
    {<<NumStr(r.traceNumber)>> :
        r \in {c \in CurrentResults(e) :
                  c.valid /\ xla.FIRST <= c.traceNumber /\ c.traceNumber <= xla.LAST}}

\* C20: ANL of every exported LiquidAdditions row lists exactly the trace
\* numbers t with FIRST <= t <= LAST whose CURRENT result is flagged valid:
\* no trace that is not valid and no trace outside the range
C20_ValidTracesListed ==
    Projected =>
        \A e \in DOMAIN trial.experiments :
            /\ RowsOf(dfs.LiquidAdditions, e) = dfs.LiquidAdditions
            /\ \A i \in DOMAIN dfs.LiquidAdditions :
                  Listed(dfs.LiquidAdditions[i].ANL) =
                      ValidCurrentIn(e, dfs.LiquidAdditions[i])

\* Two additions of an experiment of three CURRENT traces, the second not
\* valid: the first row covers the traces 1 and 2 and lists 1, the second
\* covers the trace 3 and lists 3
C20_Witness ==
    /\ Projected
    /\ Len(dfs.LiquidAdditions) = 2
    /\ Cardinality(CurrentResults(1)) = 3
    /\ \E r \in CurrentResults(1) : r.traceNumber = 2 /\ ~r.valid
    /\ dfs.LiquidAdditions[1].FIRST = 1 /\ dfs.LiquidAdditions[1].LAST = 2
    /\ Listed(dfs.LiquidAdditions[1].ANL) = {<<"1">>}
    /\ Listed(dfs.LiquidAdditions[2].ANL) = {<<"3">>}

----------------------------------------------------------------------------
(* to_xlsx step by step: the tables, then the waveform files, then the     *)
(* summary workbook                                                        *)

\* to_xlsx(trial, edformat=edformat) is called and builds its tables; the call
\* ends here when the projection raises
BuildTables(edformat) ==
    /\ pc = "build"
    /\ dfs' = cells_cursors_liquids_results_dataframes(trial)
    /\ format' = edformat
    /\ raised' = Exception(dfs'.err, "")
    /\ pc' = IF dfs'.err = "none" THEN "waveforms" ELSE "exported"
    /\ UNCHANGED <<trial, disk, imported, args, ret>>

\* The branch on edformat: the waveform file of every experiment is written
\* and named in SRCXFN of la_df, or EncapsulatedDataFileError ends the call
WriteWaveforms ==
    /\ pc = "waveforms"
    /\ IF format \in EdFormats
       THEN /\ disk' = [disk EXCEPT !.files = save_waveforms(trial, format, @)]
            /\ dfs' = [dfs EXCEPT !.LiquidAdditions = BackFilled(@, format)]
            /\ pc' = "workbook"
            /\ UNCHANGED raised
       ELSE /\ raised' = Exception("EncapsulatedDataFileError", format)
            /\ pc' = "exported"
            /\ UNCHANGED <<disk, dfs>>
    /\ UNCHANGED <<trial, format, imported, args, ret>>

\* with pd.ExcelWriter(ted_xlsx_filename): the six sheets are written
WriteWorkbook ==
    /\ pc = "workbook"
    /\ disk' = [disk EXCEPT !.book = <<SummaryBook(dfs, dfs.LiquidAdditions, trial)>>]
    /\ pc' = "exported"
    /\ UNCHANGED <<trial, dfs, raised, format, imported, args, ret>>

NextSteps ==
    \/ NewExperiment(Exp1, Cell1, "CIPA_LEAK_METHOD_NONE")
    \/ \E time \in Times, kind \in TraceKinds :
            AddTraceInOrder(1, time, kind.types, kind.valid, kind.cursors)
    \/ \E time \in Times, protocol \in {Control, Drug} : AddLiquid(1, time, protocol)
    \/ \E edformat \in EdFormats \cup {"json"} : BuildTables(edformat)
    \/ WriteWaveforms
    \/ WriteWorkbook

SpecSteps == Init /\ [][NextSteps]_vars

\* The files named in the column SRCXFN of the workbook on disk
NamedFiles == {disk.book[1].LiquidAdditions[i].SRCXFN[1] :
                  i \in DOMAIN disk.book[1].LiquidAdditions}

\* The step that writes the workbook ends the call without an exception and
\* writes no waveform file
WorkbookWrittenLast ==
    disk'.book # disk.book =>
        /\ pc' = "exported"
        /\ raised' = NoException
        /\ disk'.files = disk.files

\* C21: the workbook is written last in every call of to_xlsx: when it is on
\* disk every waveform file that its column SRCXFN names has been written by
\* the call, the step that writes it ends the call, and a call that raised
\* has written no workbook
C21_WorkbookLast ==
    /\ [](disk.book # <<>> => NamedFiles \subseteq DOMAIN disk.files)
    /\ []((pc = "exported" /\ raised # NoException) => disk.book = <<>>)
    /\ []((pc = "exported" /\ raised = NoException) =>
              [raised |-> raised, disk |-> disk] = to_xlsx(trial, format, EmptyDisk))
    /\ [][WorkbookWrittenLast]_vars

\* A zip export of two traces has ended: the workbook names the archive that
\* is on disk
C21_Witness ==
    /\ Exported
    /\ format = "zip"
    /\ TraceCount(trial.experiments[1]) = 2
    /\ disk.book # <<>>
    /\ NamedFiles = {Dotted(<<"C1">>, <<"csv", "zip">>)}
    /\ DOMAIN disk.files = NamedFiles

----------------------------------------------------------------------------
(* Claims about the time axis and the executions of imported experiments   *)

\* C22: an axis whose unit is none of s, ms and us is given the unit ms; when
\* its step is below 0.001 its first time and its step are both multiplied by
\* 1e3, and otherwise both are left as they are
C22_UnknownUnit ==
    (pc = "normalized" /\ Lower(args.unit) \notin {"s", "ms", "us"}) =>
        /\ ret.unit = "ms"
        /\ IF LessThan(args.step, Dec(1, -3))
           THEN /\ ret.head = Scaled(args.head, 3)
                /\ ret.step = Scaled(args.step, 3)
           ELSE /\ ret.head = args.head
                /\ ret.step = args.step

\* The sheets of the dataset on disk as from_xlsx reads them, and the rows of
\* the imported experiment e in them
ReadLA == ReadLiquidAdditions(disk.book[1])
ReadRW == ReadResultsWide(disk.book[1])

OfExperiment(row, e) ==
    /\ row.EXPID = imported[1].experiments[e].id.root
    /\ row.CELLID = imported[1].experiments[e].id.extension

\* What identifies the execution of a liquid protocol: the liquid, its
\* concentration, and the time of the execution
Addition(p) == <<p.protocol.liquid.name, p.protocol.conc, p.time, p.time_u>>

AdditionAt(l, r) == <<l.LIQUID, l.CONC, r.ELTIME, r.ELTIMEU>>

\* The pairs of a LiquidAdditions row and a ResultsWide row of experiment e
\* whose trace number is FIRST of the former
StartPairs(e) ==
    {<<i, j>> \in (DOMAIN ReadLA) \X (DOMAIN ReadRW) :
        /\ OfExperiment(ReadLA[i], e) /\ OfExperiment(ReadRW[j], e)
        /\ ReadLA[i].FIRST = ReadRW[j].TRACENUM}

\* The pairs whose trace number lies within [FIRST, LAST] of the former
RangePairs(e) ==
    {<<i, j>> \in (DOMAIN ReadLA) \X (DOMAIN ReadRW) :
        /\ OfExperiment(ReadLA[i], e) /\ OfExperiment(ReadRW[j], e)
        /\ ReadLA[i].FIRST <= ReadRW[j].TRACENUM
        /\ ReadRW[j].TRACENUM <= ReadLA[i].LAST}

ImportedAdditions(e) ==
    {Addition(p) : p \in Range(LiquidExecutions(imported[1].experiments[e]))}

\* C23 (as claimed): for every ResultsWide row whose trace number lies within
\* [FIRST, LAST] of a LiquidAdditions row of its experiment, the imported
\* experiment has an execution of the liquid protocol of that row at the
\* elapsed time of the trace
C23_ExecutionPerTraceInRange ==
    Imported =>
        \A e \in DOMAIN imported[1].experiments :
            \A pair \in RangePairs(e) :
                AdditionAt(ReadLA[pair[1]], ReadRW[pair[2]]) \in ImportedAdditions(e)

\* C23 (amended): the imported experiment has one execution of a liquid
\* protocol for every ResultsWide row whose trace number is FIRST of a
\* LiquidAdditions row of its experiment, of the protocol of that row and at
\* the elapsed time of the trace, and it has no other
C23_ExecutionAtFirstTrace ==
    Imported =>
        \A e \in DOMAIN imported[1].experiments :
            /\ ImportedAdditions(e) =
                  {AdditionAt(ReadLA[pair[1]], ReadRW[pair[2]]) : pair \in StartPairs(e)}
            /\ Len(LiquidExecutions(imported[1].experiments[e])) =
                  Cardinality(StartPairs(e))

\* An import of three traces at 0 s, 1 s and 2 s with the control added at
\* 0 s and the drug at 2 s: the range of the control holds the traces 1 and 2,
\* and the experiment has the two executions at 0 s and at 2 s
C23_Witness ==
    /\ Imported
    /\ Len(ReadRW) = 3
    /\ ReadLA[1].FIRST = 1 /\ ReadLA[1].LAST = 2
    /\ ImportedAdditions(1) = {<<"DMSO", 0, 0, "s">>, <<"dofetilide", 3, 2, "s">>}
    /\ Cardinality(RangePairs(1)) = 3

\* The executions of the voltage protocol of an experiment, in their order
VoltageExecutions(exp) ==
    SelectSeq(exp.protocols, LAMBDA p : p.protocol.type = PROTOCOL_VOLTAGE)

\* The rows of the left join of the ResultsWide rows of experiment e with the
\* LiquidAdditions rows that start at their trace: a ResultsWide row j once
\* (k = 0) when no addition starts at it, and once for every LiquidAdditions
\* row k that starts at it otherwise
JoinedRows(e) ==
    StartPairs(e) \cup
    {<<0, j>> : j \in {j \in DOMAIN ReadRW :
                          /\ OfExperiment(ReadRW[j], e)
                          /\ \A i \in DOMAIN ReadLA : <<i, j>> \notin StartPairs(e)}}

\* The number of results built for experiment e
ResultsBuilt(e) ==
    IF imported[1].experiments[e].resultsSet = <<>> THEN 0
    ELSE Len(imported[1].experiments[e].resultsSet[1].results)

----------------------------------------------------------------------------
(* Import of a dataset whose column ANL was filled in by hand              *)

\* The tokens typed into a cell ANL: '2', '1-3', '3-1', '1-2-3', '', 'x' and
\* 'x-2'
AnlTokens ==
    {<<"2">>, <<"1", "3">>, <<"3", "1">>, <<"1", "2", "3">>, <<"">>, <<"x">>,
     <<"x", "2">>}

\* The values typed into a cell ANL: one token, or two joined by ';'
AnlCells == {<<a>> : a \in AnlTokens} \cup {<<a, b>> : a, b \in AnlTokens}

\* The cell ANL of row i of the sheet LiquidAdditions is set to numbers_string
SetANL(i, numbers_string) ==
    /\ pc = "exported"
    /\ i \in DOMAIN disk.book[1].LiquidAdditions
    /\ disk' = [disk EXCEPT !.book[1].LiquidAdditions[i].ANL = numbers_string]
    /\ UNCHANGED <<trial, pc, dfs, raised, format, imported, args, ret>>

\* ret = expand_numbers_list(args), of the cell ANL of row i
ExpandNumbersList(i) ==
    /\ pc = "exported"
    /\ i \in DOMAIN disk.book[1].LiquidAdditions
    /\ args' = disk.book[1].LiquidAdditions[i].ANL
    /\ ret' = expand_numbers_list(disk.book[1].LiquidAdditions[i].ANL)
    /\ pc' = "expand_numbers_list"
    /\ UNCHANGED <<trial, dfs, raised, format, disk, imported>>

NextAnl ==
    \/ \E i \in 1..MaxAdds, numbers_string \in AnlCells : SetANL(i, numbers_string)
    \/ \E i \in 1..MaxAdds : ExpandNumbersList(i)
    \/ FromXlsx

SpecAnl == InitTed /\ [][NextAnl]_vars

\* A well-formed token: a number, or a range of two numbers in their order
WellFormed(item) ==
    \/ Len(item) = 1 /\ IsNumber(item[1])
    \/ /\ Len(item) = 2 /\ IsNumber(item[1]) /\ IsNumber(item[2])
       /\ int(item[1]) <= int(item[2])

\* The numbers a well-formed token stands for, as strings
Expansion(item) ==
    IF Len(item) = 1 THEN <<item[1]>>
    ELSE [k \in 1..(int(item[2]) - int(item[1]) + 1) |-> NumStr(int(item[1]) + k - 1)]

\* The expansions of the well-formed tokens of a list, in their order
ExpansionOfWellFormed(numbers_string) ==
    FlattenSeq([i \in DOMAIN numbers_string |->
        IF WellFormed(numbers_string[i]) THEN Expansion(numbers_string[i])
        ELSE <<>>])

\* C25: expand_numbers_list returns the expansions of the well-formed tokens
\* of its argument, in their order, and does not raise, whatever the other
\* tokens are; and the import of a dataset whose cells ANL hold such tokens
\* succeeds
C25_MalformedTokenSkipped ==
    /\ pc = "expand_numbers_list" =>
          /\ ret.err = "none"
          /\ ret.out = ExpansionOfWellFormed(args)
    /\ pc = "imported" => raised = NoException

----------------------------------------------------------------------------
(* The decoding of samples by cipa.io.sampled_to_physical                  *)

Abs(n) == IF n < 0 THEN 0 - n ELSE n

RECURSIVE Gcd(_, _)
Gcd(a, b) == IF b = 0 THEN a ELSE Gcd(b, a % b)

\* The float a / b of two integers, b not 0, as the fraction in lowest terms
\* with a positive denominator
TrueDiv(a, b) ==
    LET g == Gcd(Abs(a), Abs(b))
        s == IF b < 0 THEN -1 ELSE 1
    IN  [num |-> (s * a) \div g, den |-> (s * b) \div g]

\* The float of an integer, as a fraction
Whole(n) == [num |-> n, den |-> 1]

\* cipa.io.sampled_to_physical(sampled_values, origin, scale)
sampled_to_physical(sampled_values, origin, scale) ==
    IF sampled_values # <<>> /\ scale = 0
    THEN [err |-> "ZeroDivisionError", out |-> <<>>]
    ELSE [err |-> "none",
          out |-> [i \in DOMAIN sampled_values |->
                      TrueDiv(sampled_values[i] - origin, scale)]]

\* ret = sampled_to_physical(args.digits, args.origin.value, args.scale.value)
SampledToPhysical ==
    /\ pc = "call"
    /\ ret' = sampled_to_physical(args.digits, args.origin.value, args.scale.value)
    /\ pc' = "sampled_to_physical"
    /\ UNCHANGED <<trial, dfs, raised, format, disk, imported, args>>

NextDecode ==
    \/ SampledToPhysical
    \/ \E includetime \in BOOLEAN : TimeseriesToDf(includetime)

SpecDecode == InitWave /\ [][NextDecode]_vars

\* C26: sampled_to_physical returns digit * scale + origin for every digit,
\* which are the samples of the table that timeseries_to_df makes of the same
\* digits, origin and scale
C26_SameDecode ==
    pc = "sampled_to_physical" =>
        /\ ret.err = "none"
        /\ ret.out = [i \in DOMAIN args.digits |->
                         Whole(args.digits[i] * args.scale.value + args.origin.value)]
        /\ ret.out = [i \in DOMAIN args.digits |->
                         Whole(timeseries_to_df(args, FALSE)[1].values[i])]

----------------------------------------------------------------------------
(* Claims about the ranges, the keys and the concentration types of the    *)
(* exported tables                                                         *)

\* C27: every row of the projected LiquidAdditions has FIRST <= LAST,
\* whatever the times of the liquid additions are relative to the traces.
\* Stated for the experiments whose results are all CURRENT and whose elapsed
\* times increase with the trace number, where the claim is least demanding.
C27_RangeNotEmpty ==
    Projected =>
        \A e \in DOMAIN trial.experiments :
            (CurrentResults(e) = RecordedResults(e) /\ TimesIncrease(e)) =>
                LET rows == RowsOf(dfs.LiquidAdditions, e)
                IN  \A i \in DOMAIN rows : rows[i].FIRST <= rows[i].LAST

\* dfs = cells_cursors_liquids_results_dataframes(from_xlsx(...)), of the
\* Trial that the import returned
ProjectImported ==
    /\ pc = "imported"
    /\ raised = NoException
    /\ dfs' = cells_cursors_liquids_results_dataframes(imported[1])
    /\ raised' = Exception(dfs'.err, "")
    /\ pc' = "projected again"
    /\ UNCHANGED <<trial, format, disk, imported, args, ret>>

NextKeys ==
    \/ \E i \in 1..MaxTraces, m \in LeakCells : SetLeakMethod(i, m)
    \/ \E i \in 1..MaxTraces : DeleteResultsRow(i)
    \/ \E i \in 1..MaxAdds, loc \in SourceCells : SetSRCXFN(i, loc)
    \/ FromXlsx
    \/ ProjectImported

SpecKeys == InitTed /\ [][NextKeys]_vars

\* The pairs of EXPID and CELLID of the rows of a table
KeysOf(table) == {<<table[i].EXPID, table[i].CELLID>> : i \in DOMAIN table}

\* C28: the projection of the Trial imported from a dataset has the EXPID and
\* CELLID values of the dataset, in LiquidAdditions and in ResultsWide
C28_KeysSurvive ==
    pc = "projected again" =>
        /\ raised = NoException
        /\ KeysOf(dfs.LiquidAdditions) = KeysOf(ReadLA)
        /\ KeysOf(dfs.ResultsWide) = KeysOf(ReadRW)

----------------------------------------------------------------------------
(* Export and import of liquid protocols of every concentration type       *)

\* TedTrial with the concentrations of its control and of its drug of the
\* types ctl and drug
ConcTrial(ctl, drug) ==
    [TedTrial EXCEPT !.experiments[1].protocols[2].protocol.conc_type = ctl,
                     !.experiments[1].protocols[3].protocol.conc_type = drug]

InitConc ==
    /\ trial \in {ConcTrial(ctl, drug) : ctl, drug \in Concentration_Type}
    /\ pc = "build"
    /\ dfs = NoTables
    /\ raised = NoException
    /\ format = "csv"
    /\ disk = EmptyDisk
    /\ imported = <<>>
    /\ args = <<>>
    /\ ret = <<>>

NextConc ==
    \/ \E edformat \in EdFormats : ToXlsx(edformat)
    \/ FromXlsx

SpecConc == InitConc /\ [][NextConc]_vars

\* The liquids executed in an experiment, each with the type of its
\* concentration
ConcentrationTypes(exp) ==
    {<<p.protocol.liquid.name, p.protocol.conc_type>> :
        p \in Range(LiquidExecutions(exp))}

\* C29: the import of an exported dataset does not raise and gives every
\* liquid protocol the concentration type it had in the exported Trial,
\* whichever member of Concentration_Type that is.  Stated for the formats csv
\* and zip of the waveform files.
C29_ConcentrationTypeSurvives ==
    (pc = "imported" /\ format \in {"csv", "zip"}) =>
        /\ raised = NoException
        /\ ConcentrationTypes(imported[1].experiments[1]) =
              ConcentrationTypes(trial.experiments[1])

----------------------------------------------------------------------------
(* Claim about the start time of the waveforms of a file                   *)

\* C30: the waveforms imported from a waveform file all have the same head,
\* the first time of the file in milliseconds, the one built when the file was
\* loaded and those built from the cached table alike.  Stated for the files
\* whose time column ends with s, ms or us.
C30_SameHead ==
    (Imported /\ FileUnit \in {"s", "ms", "us"}) =>
        /\ \A wf1, wf2 \in ImportedWaveforms : wf1.head = wf2.head
        /\ \A wf \in ImportedWaveforms :
              wf.head = [value |-> Scaled(FileTime.values[1], ToMilli(FileUnit)),
                         unit |-> "ms"]

====
